---- MODULE Spec2Model ----
(***************************************************************************)
(* Chroma-Canvas: the timeline editor (reducer and pointer interaction),   *)
(* the interactive preview and the export loop.                            *)
(*                                                                         *)
(* Units.  Times are integers counted in ticks of 0.1 s.  Pixels are       *)
(* integers.  zoom is in pixels per tick (the code's pixels per second     *)
(* divided by 10).  opacity, volume and scale are in tenths (1.0 is 10),   *)
(* playbackRate in quarters (1x is 4), the steps of the property panel's   *)
(* sliders.  Values computed by the render paths are exact rationals       *)
(* [n, d].  IEEE rounding of the code's doubles is not modelled.           *)
(***************************************************************************)
EXTENDS Integers, Sequences, FiniteSets, TLC

VARIABLES
    state,          \* EditorState of App's useReducer
    nextId,         \* the next id Math.random().toString(36) yields
    dragState,      \* Timeline: useState dragState
    selectionBox,   \* Timeline: useState selectionBox
    lastMove,       \* Timeline: the last mousemove handled during the drag
    lastBox,        \* Timeline: the marquee the last mouseup closed
    pointer,        \* the pointer over the timeline: "idle", "pressed", "released"
    media,          \* RightSidebar: the HTMLMediaElements of mediaElementsRef, by id
    painted,        \* RightSidebar: the layers of the last render of the preview
    exportRun,      \* RightSidebar: isExporting and the locals of handleExport
    fade,           \* the last evaluation of the fade of one element
    browser,        \* the MIME types MediaRecorder.isTypeSupported accepts
    playback,       \* App: the closure of the playback loop's effect
    audioSourceNodeCache
                    \* RightSidebar: the audio source nodes made so far, by the id
                    \* of the media element, with the number of nodes made for it

vars == <<state, nextId, dragState, selectionBox, lastMove, lastBox, pointer,
          media, painted, exportRun, fade, browser, playback, audioSourceNodeCache>>

----------------------------------------------------------------------------
(* Program constants, in the units above *)

TRACK_HEIGHT == 80
TRACK_GAP == 10
HEADER_HEIGHT == 40
MIN_ZOOM == 1
MAX_ZOOM == 20
DEFAULT_ZOOM == 5
INITIAL_DURATION == 600
ADD_PADDING == 100
MIN_DURATION == 5
SNAP_THRESHOLD_PX == 15
TINY_DRAG_PX == 5
UnitRate == 4
UnitTenths == 10
TEXT_DURATION == 30

(* Bounds of the model *)

MaxId == 2          \* ids handed out in one behaviour (elements ever created)
MaxDelta == 6       \* largest pointer displacement of a drag, in ticks
MaxRow == 2         \* lowest track row the pointer reaches
MaxSeeks == 1       \* manual seeks (seekVersion) in one behaviour

----------------------------------------------------------------------------
(* Helpers *)

Max(a, b) == IF a >= b THEN a ELSE b
Min(a, b) == IF a <= b THEN a ELSE b
Abs(a) == IF a >= 0 THEN a ELSE -a

Range(s) == {s[i] : i \in DOMAIN s}

\* { ...el, ...changes }
Merge(el, changes) ==
    [f \in DOMAIN el |-> IF f \in DOMAIN changes THEN changes[f] ELSE el[f]]

\* Array.prototype.includes
Includes(seq, v) == \E i \in DOMAIN seq : seq[i] = v

\* Array.prototype.find on elements by id: the first match, as a sequence of
\* length 0 (undefined) or 1
FindById(elements, id) ==
    LET hits == SelectSeq(elements, LAMBDA e : e.id = id)
    IN  IF hits = <<>> THEN <<>> ELSE <<hits[1]>>

ElementIds(elements) == {elements[i].id : i \in DOMAIN elements}

endTime(el) == el.startTime + el.duration

----------------------------------------------------------------------------
(* App.tsx: reducer.  Each case is an operator from (state, payload) to    *)
(* the next state; a random id is passed in by the caller.                 *)

initialState ==
    [elements |-> <<>>, currentTime |-> 0, isPlaying |-> FALSE,
     zoom |-> DEFAULT_ZOOM, selectedIds |-> <<>>, duration |-> INITIAL_DURATION,
     canvasMode |-> "landscape", seekVersion |-> 0, clipboard |-> <<>>]

ADD_ELEMENT(s, payload) ==
    [s EXCEPT
       !.elements = Append(@, [payload EXCEPT
                        !.playbackRate = IF @ = 0 THEN UnitRate ELSE @]),
       !.selectedIds = <<payload.id>>,
       !.duration = Max(s.duration, payload.startTime + payload.duration + ADD_PADDING)]

UPDATE_ELEMENT(s, id, changes) ==
    [s EXCEPT !.elements =
        [i \in DOMAIN @ |-> IF @[i].id = id THEN Merge(@[i], changes) ELSE @[i]]]

UPDATE_ELEMENTS(s, ids, changes) ==
    [s EXCEPT !.elements =
        [i \in DOMAIN @ |-> IF Includes(ids, @[i].id) THEN Merge(@[i], changes) ELSE @[i]]]

\* updates: a sequence of [id, changes]; find takes the first update of the id
MOVE_ELEMENTS(s, updates) ==
    [s EXCEPT !.elements =
        [i \in DOMAIN @ |->
            LET hit == SelectSeq(updates, LAMBDA u : u.id = @[i].id)
            IN  IF hit = <<>> THEN @[i] ELSE Merge(@[i], hit[1].changes)]]

\* payload 0 stands for a null payload
SELECT_ELEMENT(s, payload) ==
    [s EXCEPT !.selectedIds = IF payload # 0 THEN <<payload>> ELSE <<>>]

SET_SELECTION(s, payload) == [s EXCEPT !.selectedIds = payload]

DESELECT_ALL(s) == [s EXCEPT !.selectedIds = <<>>]

SET_TIME(s, payload) == [s EXCEPT !.currentTime = Max(0, payload)]

SEEK(s, payload) ==
    [s EXCEPT !.currentTime = Max(0, payload), !.seekVersion = @ + 1]

TOGGLE_PLAY(s) == [s EXCEPT !.isPlaying = ~@]

SET_ZOOM(s, payload) == [s EXCEPT !.zoom = Min(MAX_ZOOM, Max(MIN_ZOOM, payload))]

DELETE_SELECTED(s) ==
    [s EXCEPT !.elements = SelectSeq(@, LAMBDA e : ~Includes(s.selectedIds, e.id)),
              !.selectedIds = <<>>]

\* the element removed and the selection left as it was
DELETE_ELEMENT_KeepsSelection(s, payload) ==
    [s EXCEPT !.elements = SelectSeq(@, LAMBDA e : e.id # payload)]

DELETE_ELEMENT(s, payload) ==
    [s EXCEPT !.elements = SelectSeq(@, LAMBDA e : e.id # payload),
              !.selectedIds = SelectSeq(@, LAMBDA id : id # payload)]

SET_CANVAS_MODE(s, payload) == [s EXCEPT !.canvasMode = payload]

\* action.payload || state.selectedIds[0]; 0 when both are missing
PayloadOrFirstSelected(s, payload) ==
    IF payload # 0 THEN payload
    ELSE IF s.selectedIds # <<>> THEN s.selectedIds[1] ELSE 0

COPY_ELEMENT(s, payload) ==
    [s EXCEPT !.clipboard = FindById(s.elements, PayloadOrFirstSelected(s, payload))]

PASTE_ELEMENT(s, rnd) ==
    IF s.clipboard = <<>> THEN s
    ELSE LET newEl == [s.clipboard[1] EXCEPT
                         !.id = rnd,
                         !.startTime = s.currentTime,
                         !.trackId = s.clipboard[1].trackId,
                         !.name = @ \o " (Copy)"]
         IN  [s EXCEPT !.elements = Append(@, newEl), !.selectedIds = <<newEl.id>>]

\* One pass of the forEach of EXTRACT_AUDIO over idsToProcess[k..]; the j-th
\* audio element created takes the id rnd + j - 1.
RECURSIVE ExtractLoop(_, _, _, _)
ExtractLoop(newElements, ids, k, rnd) ==
    IF k > Len(ids) THEN newElements
    ELSE LET vid == FindById(newElements, ids[k])
         IN  IF vid # <<>> /\ vid[1].type = "VIDEO"
             THEN LET audioEl == [vid[1] EXCEPT
                                    !.id = rnd,
                                    !.type = "AUDIO",
                                    !.trackId = vid[1].trackId + 1,
                                    !.name = @ \o " (Audio)",
                                    !.opacity = UnitTenths,
                                    !.fadeIn = 0, !.fadeOut = 0,
                                    !.volume = vid[1].volume]
                      muted == [i \in DOMAIN newElements |->
                                  IF newElements[i].id = vid[1].id
                                  THEN [newElements[i] EXCEPT !.volume = 0]
                                  ELSE newElements[i]]
                  IN  ExtractLoop(Append(muted, audioEl), ids, k + 1, rnd + 1)
             ELSE ExtractLoop(newElements, ids, k + 1, rnd)

EXTRACT_AUDIO(s, payload, rnd) ==
    LET idsToProcess == IF payload # 0 THEN <<payload>> ELSE s.selectedIds
    IN  [s EXCEPT !.elements = ExtractLoop(s.elements, idsToProcess, 1, rnd)]

\* el.playbackRate || 1
RateOrOne(el) == IF el.playbackRate = 0 THEN UnitRate ELSE el.playbackRate

\* x seconds of timeline at a rate in quarters, in media seconds
TimesRate(x, rate) == (x * rate) \div UnitRate

\* SPLIT_CLIP with the second part's trimStart advanced by timeline seconds,
\* the playback rate left out
SPLIT_CLIP_UnscaledTrim(s, payload, rnd) ==
    LET found == FindById(s.elements, PayloadOrFirstSelected(s, payload))
    IN  IF found = <<>> THEN s
        ELSE LET el == found[1]
                 splitTime == s.currentTime
             IN  IF splitTime <= el.startTime \/ splitTime >= el.startTime + el.duration
                 THEN s
                 ELSE LET part1 == [el EXCEPT !.duration = splitTime - el.startTime]
                          part2 == [el EXCEPT !.id = rnd,
                                              !.startTime = splitTime,
                                              !.duration = el.startTime + el.duration - splitTime,
                                              !.trimStart = el.trimStart + (splitTime - el.startTime)]
                      IN  [s EXCEPT
                             !.elements = Append([i \in DOMAIN @ |->
                                             IF @[i].id = el.id THEN part1 ELSE @[i]], part2),
                             !.selectedIds = <<part2.id>>]

SPLIT_CLIP(s, payload, rnd) ==
    LET found == FindById(s.elements, PayloadOrFirstSelected(s, payload))
    IN  IF found = <<>> THEN s
        ELSE LET el == found[1]
                 splitTime == s.currentTime
             IN  IF splitTime <= el.startTime \/ splitTime >= el.startTime + el.duration
                 THEN s
                 ELSE LET firstDurationOnTimeline == splitTime - el.startTime
                          secondDurationOnTimeline == el.duration - firstDurationOnTimeline
                          mediaTimePassed == TimesRate(firstDurationOnTimeline, RateOrOne(el))
                          part1 == [el EXCEPT !.duration = firstDurationOnTimeline]
                          part2 == [el EXCEPT !.id = rnd,
                                              !.startTime = splitTime,
                                              !.duration = secondDurationOnTimeline,
                                              !.trimStart = el.trimStart + mediaTimePassed]
                      IN  [s EXCEPT
                             !.elements = Append([i \in DOMAIN @ |->
                                             IF @[i].id = el.id THEN part1 ELSE @[i]], part2),
                             !.selectedIds = <<part2.id>>]

----------------------------------------------------------------------------
(* RightSidebar: the render of the preview sorts state.elements in place,   *)
(* by trackId.  The sidebar is always mounted and renders after every       *)
(* change of the state, so every handler finds the array in that order.     *)

\* Array.prototype.sort((a, b) => a.trackId - b.trackId): a stable sort
RECURSIVE SortByTrack(_)
SortByTrack(elements) ==
    IF elements = <<>> THEN <<>>
    ELSE LET k == CHOOSE i \in DOMAIN elements :
                     /\ \A j \in DOMAIN elements : elements[i].trackId <= elements[j].trackId
                     /\ \A j \in 1 .. (i - 1) : elements[j].trackId # elements[i].trackId
         IN  <<elements[k]>> \o
             SortByTrack(SubSeq(elements, 1, k - 1) \o SubSeq(elements, k + 1, Len(elements)))

\* the state a dispatch leaves once the components have rendered it
Rendered(s) == [s EXCEPT !.elements = SortByTrack(@)]

----------------------------------------------------------------------------
(* Timeline.tsx: local state and geometry *)

NoDrag ==
    [isDragging |-> FALSE, type |-> "none", elementId |-> 0, startX |-> 0,
     initialElements |-> <<>>]

NoMove == [handled |-> FALSE, deltaSeconds |-> 0, currentY |-> 0]

\* handleExport: the types it asks MediaRecorder.isTypeSupported about, in
\* the order it asks
mimeTypes ==
    <<"video/mp4", "video/webm;codecs=vp9", "video/webm;codecs=vp8", "video/webm">>

\* a browser whose MediaRecorder supports every type of the list
AllSupported == {mimeTypes[i] : i \in DOMAIN mimeTypes}

\* Array.prototype.find found nothing: undefined
NoMimeType == "undefined"

\* no alert has been shown
NoAlert == "none"

\* handleExport's alert when no type is supported
UnsupportedAlert == "Your browser does not support MediaRecorder export."

\* mimeTypes.find(type => MediaRecorder.isTypeSupported(type)), asked from
\* index i on, the list's last supported type instead of its first
RECURSIVE FindMimeTypeLast(_, _)
FindMimeTypeLast(supported, i) ==
    IF i > Len(mimeTypes) THEN NoMimeType
    ELSE IF FindMimeTypeLast(supported, i + 1) # NoMimeType
         THEN FindMimeTypeLast(supported, i + 1)
    ELSE IF mimeTypes[i] \in supported THEN mimeTypes[i]
    ELSE NoMimeType

\* mimeTypes.find(type => MediaRecorder.isTypeSupported(type)), asked from
\* index i on
RECURSIVE FindMimeType(_, _)
FindMimeType(supported, i) ==
    IF i > Len(mimeTypes) THEN NoMimeType
    ELSE IF mimeTypes[i] \in supported THEN mimeTypes[i]
    ELSE FindMimeType(supported, i + 1)

\* no export has run: isExporting false, no recorder.  closureIsExporting is
\* the isExporting that handleExport and its tick read: the value of the
\* render the click came from, which the guard of handleExport makes false.
\* frameErrors counts the "Render loop error" lines of the run's ticks;
\* source tells for each mixed media element whether its source node was
\* made by this run or taken from the cache; earlier is the run of an
\* earlier call of handleExport whose recorder has not stopped, if there is one
NoExport ==
    [isExporting |-> FALSE, closureIsExporting |-> FALSE,
     phase |-> "idle", exportDuration |-> 0, elapsed |-> 0,
     snapshot |-> [elements |-> <<>>, canvasMode |-> "landscape"], originalMediaStates |-> <<>>, gain |-> <<>>, frame |-> <<>>,
     drawn |-> <<>>, mimeType |-> NoMimeType, alert |-> NoAlert,
     frameErrors |-> 0, source |-> <<>>, earlier |-> <<>>]

\* no playback loop runs: no frame is requested
NoPlayback == [running |-> FALSE, startOffset |-> 0, duration |-> 0, elapsed |-> 0]

\* no fade has been evaluated
NoFade == [evaluated |-> FALSE, path |-> "none", el |-> <<>>, clipTime |-> 0,
           fadeMultiplier |-> <<>>]

NoBox ==
    [isSelecting |-> FALSE, startX |-> 0, startY |-> 0, currentX |-> 0, currentY |-> 0]

\* ElementBlock: left, width and top of the block inside #timeline-tracks
BlockLeft(el, zoom) == el.startTime * zoom
BlockWidth(el, zoom) == el.duration * zoom
BlockTop(el) == el.trackId * (TRACK_HEIGHT + TRACK_GAP) + TRACK_GAP

\* the pointer (container coordinates) is over the block of some element:
\* the blocks lie below the ruler of HEADER_HEIGHT pixels
OverSomeBlock(s, x, y) ==
    \E i \in DOMAIN s.elements :
        LET el == s.elements[i]
        IN  /\ x >= BlockLeft(el, s.zoom)
            /\ x < BlockLeft(el, s.zoom) + BlockWidth(el, s.zoom)
            /\ y >= HEADER_HEIGHT + BlockTop(el)
            /\ y < HEADER_HEIGHT + BlockTop(el) + TRACK_HEIGHT

----------------------------------------------------------------------------
(* Timeline.tsx: handleMouseMove, drag branch *)

\* snapPoints: start and end of every element that is not being dragged, in
\* the order of state.elements, then the playhead, then 0
RECURSIVE ElementSnapPoints(_, _, _)
ElementSnapPoints(elements, initialElements, i) ==
    IF i > Len(elements) THEN <<>>
    ELSE LET el == elements[i]
             rest == ElementSnapPoints(elements, initialElements, i + 1)
         IN  IF \E k \in DOMAIN initialElements : initialElements[k].id = el.id
             THEN rest
             ELSE <<el.startTime, el.startTime + el.duration>> \o rest

SnapPoints(s, ds) ==
    ElementSnapPoints(s.elements, ds.initialElements, 1) \o <<s.currentTime, 0>>

\* Math.abs(a - point) < snapThresholdSec, with snapThresholdSec = 15 / zoom
WithinSnap(a, point, zoom) == Abs(a - point) * zoom < SNAP_THRESHOLD_PX

\* the for loop with the two tests of its body exchanged: the end is tried
\* before the start
RECURSIVE SnapLoopEndFirst(_, _, _, _, _, _)
SnapLoopEndFirst(snapPoints, i, newStartTime, newEndTime, duration, zoom) ==
    IF i > Len(snapPoints) THEN newStartTime
    ELSE IF WithinSnap(newEndTime, snapPoints[i], zoom) THEN snapPoints[i] - duration
    ELSE IF WithinSnap(newStartTime, snapPoints[i], zoom) THEN snapPoints[i]
    ELSE SnapLoopEndFirst(snapPoints, i + 1, newStartTime, newEndTime, duration, zoom)

\* the for loop over snapPoints from index i on: the value of newStartTime
\* when the loop ends
RECURSIVE SnapLoop(_, _, _, _, _, _)
SnapLoop(snapPoints, i, newStartTime, newEndTime, duration, zoom) ==
    IF i > Len(snapPoints) THEN newStartTime
    ELSE IF WithinSnap(newStartTime, snapPoints[i], zoom) THEN snapPoints[i]
    ELSE IF WithinSnap(newEndTime, snapPoints[i], zoom) THEN snapPoints[i] - duration
    ELSE SnapLoop(snapPoints, i + 1, newStartTime, newEndTime, duration, zoom)

\* Math.floor(relativeY / (TRACK_HEIGHT + 10)) clamped at 0
TargetTrackId(currentY) ==
    Max(0, (currentY - HEADER_HEIGHT) \div (TRACK_HEIGHT + TRACK_GAP))

\* candidate start time of a dragged element before snapping
CandidateStart(el, deltaSeconds) == Max(0, el.startTime + deltaSeconds)

MovedStartTime(s, ds, el, deltaSeconds) ==
    LET newStartTime == CandidateStart(el, deltaSeconds)
        newEndTime == newStartTime + el.duration
    IN  SnapLoop(SnapPoints(s, ds), 1, newStartTime, newEndTime, el.duration, s.zoom)

MovedTrackId(ds, el, currentY) ==
    LET primary == SelectSeq(ds.initialElements, LAMBDA i : i.id = ds.elementId)
        trackDelta == IF primary # <<>> THEN TargetTrackId(currentY) - primary[1].trackId
                      ELSE 0
    IN  Max(0, el.trackId + trackDelta)

\* the updates of a move step: one per element of the drag's snapshot
MoveUpdates(s, ds, deltaSeconds, currentY) ==
    [k \in DOMAIN ds.initialElements |->
        LET el == ds.initialElements[k]
        IN  [id |-> el.id,
             changes |-> [startTime |-> MovedStartTime(s, ds, el, deltaSeconds),
                          trackId |-> MovedTrackId(ds, el, currentY)]]]

ResizeEndChanges(el, deltaSeconds) ==
    [duration |-> Max(MIN_DURATION, el.duration + deltaSeconds)]

ResizeStartChanges(el, deltaSeconds) ==
    LET newStartTime == Min(el.startTime + el.duration - MIN_DURATION,
                            Max(0, el.startTime + deltaSeconds))
        durationDiff == el.startTime - newStartTime
        newDuration == Max(MIN_DURATION, el.duration + durationDiff)
    IN  [startTime |-> newStartTime, duration |-> newDuration]

\* the state dispatched by one mousemove while dragging; deltaSeconds is
\* (currentX - startX) / zoom
DragStep(s, ds, deltaSeconds, currentY) ==
    IF ds.type = "move"
    THEN MOVE_ELEMENTS(s, MoveUpdates(s, ds, deltaSeconds, currentY))
    ELSE IF ds.type = "resize-end"
    THEN UPDATE_ELEMENT(s, ds.initialElements[1].id,
                        ResizeEndChanges(ds.initialElements[1], deltaSeconds))
    ELSE UPDATE_ELEMENT(s, ds.initialElements[1].id,
                        ResizeStartChanges(ds.initialElements[1], deltaSeconds))

----------------------------------------------------------------------------
(* Timeline.tsx: handleMouseUp, marquee branch *)

\* the left edge taken from the corner the drag started at
BoxXFromStart(box) == box.startX

BoxX(box) == Min(box.startX, box.currentX)
BoxY(box) == Min(box.startY, box.currentY)
BoxW(box) == Abs(box.currentX - box.startX)
BoxH(box) == Abs(box.currentY - box.startY)

\* the intersection test of handleMouseUp for one element
HitsBox(el, zoom, box) ==
    LET x == BoxX(box)
        y == BoxY(box)
        w == BoxW(box)
        h == BoxH(box)
        elLeft == el.startTime * zoom
        elRight == (el.startTime + el.duration) * zoom
        elTop == el.trackId * (TRACK_HEIGHT + TRACK_GAP) + TRACK_GAP
        elBottom == elTop + TRACK_HEIGHT
    IN  x < elRight /\ x + w > elLeft /\ y < elBottom /\ y + h > elTop

\* the ids pushed by the forEach, in the order of state.elements
MarqueeIds(s, box) ==
    LET hit == SelectSeq(s.elements, LAMBDA el : HitsBox(el, s.zoom, box))
    IN  [i \in DOMAIN hit |-> hit[i].id]

MarqueeResult(s, box) ==
    LET selectedIds == MarqueeIds(s, box)
    IN  IF Len(selectedIds) > 0 THEN SET_SELECTION(s, selectedIds)
        ELSE IF BoxW(box) < TINY_DRAG_PX /\ BoxH(box) < TINY_DRAG_PX THEN DESELECT_ALL(s)
        ELSE s

----------------------------------------------------------------------------
(* Inputs of the editor actions *)

DropTypes == {"VIDEO"}
DropDurations == {10}
SeekTimes == {0, 4}

\* a click half a second before the initial end of the project
LateSeekTimes == {595}
SpeedRates == {8}

\* a new CanvasElement as handleAppDrop and the Add Text menu build it
NewElement(id, type, name, startTime, duration, trackId, volume) ==
    [id |-> id, type |-> type, name |-> name,
     startTime |-> startTime, duration |-> duration, trackId |-> trackId,
     volume |-> volume, opacity |-> UnitTenths, rotation |-> 0, scale |-> UnitTenths,
     trimStart |-> 0, fadeIn |-> 0, fadeOut |-> 0, playbackRate |-> UnitRate,
     x |-> 0, y |-> 0]

\* Math.max(...elements.map(e => e.trackId)), -1 for no elements
MaxTrackId(elements) ==
    IF elements = <<>> THEN -1
    ELSE CHOOSE m \in {elements[i].trackId : i \in DOMAIN elements} :
            \A i \in DOMAIN elements : elements[i].trackId <= m

\* the right click on an element block: it becomes the selection unless it
\* is selected already
ContextSelect(s, id) ==
    IF Includes(s.selectedIds, id) THEN s ELSE SELECT_ELEMENT(s, id)

NoPointer == UNCHANGED <<dragState, selectionBox, lastMove, lastBox, pointer>>

\* Spec and SpecTimeline follow the edits and leave the media elements, the
\* painted layers and the export to SpecRender
NoRender ==
    UNCHANGED <<media, painted, exportRun, fade, browser, playback, audioSourceNodeCache>>

----------------------------------------------------------------------------
(* Editor actions: the dispatch sites of App.tsx and of the sidebar *)

\* App.tsx handleAppDrop, a library item dropped on the canvas
DropLibraryItem ==
    /\ nextId <= MaxId
    /\ \E type \in DropTypes, duration \in DropDurations :
          state' = Rendered(ADD_ELEMENT(state,
                      NewElement(nextId, type, "clip", state.currentTime, duration,
                                 MaxTrackId(state.elements) + 1, UnitTenths)))
    /\ nextId' = nextId + 1
    /\ NoPointer /\ NoRender

\* App.tsx context menu of the canvas: Add Text
AddText ==
    /\ nextId <= MaxId
    /\ state' = Rendered(ADD_ELEMENT(state,
                   NewElement(nextId, "TEXT", "Text Overlay", state.currentTime,
                              TEXT_DURATION, 0, 0)))
    /\ nextId' = nextId + 1
    /\ NoPointer /\ NoRender

\* Timeline.tsx handleCanvasClick
CanvasClickAt(times) ==
    /\ ~selectionBox.isSelecting
    /\ state.seekVersion < MaxSeeks
    /\ \E time \in times : state' = Rendered(SEEK(DESELECT_ALL(state), time))
    /\ UNCHANGED nextId
    /\ NoPointer /\ NoRender

CanvasClick == CanvasClickAt(SeekTimes)

\* the same click, near the end of the timeline
CanvasClickLate == CanvasClickAt(LateSeekTimes)

\* context menu of an element: Copy
MenuCopy ==
    /\ \E id \in ElementIds(state.elements) :
          state' = Rendered(COPY_ELEMENT(ContextSelect(state, id), id))
    /\ UNCHANGED nextId
    /\ NoPointer /\ NoRender

\* context menu of the canvas: Paste (shown when the clipboard is filled)
MenuPaste ==
    /\ nextId <= MaxId
    /\ state.clipboard # <<>>
    /\ state' = Rendered(PASTE_ELEMENT(state, nextId))
    /\ nextId' = nextId + 1
    /\ NoPointer /\ NoRender

\* context menu of an element: Split Clip
MenuSplit ==
    /\ nextId <= MaxId
    /\ \E id \in ElementIds(state.elements) :
          state' = Rendered(SPLIT_CLIP(ContextSelect(state, id), id, nextId))
    /\ nextId' = IF Len(state'.elements) > Len(state.elements) THEN nextId + 1 ELSE nextId
    /\ NoPointer /\ NoRender

\* context menu of an element and the properties panel: Extract Audio, both
\* with a null payload
ExtractAudio ==
    /\ \E id \in ElementIds(state.elements) :
          LET s == ContextSelect(state, id)
          IN  /\ nextId + Len(s.selectedIds) - 1 <= MaxId
              /\ state' = Rendered(EXTRACT_AUDIO(s, 0, nextId))
    /\ nextId' = nextId + (Len(state'.elements) - Len(state.elements))
    /\ NoPointer /\ NoRender

\* context menu of an element, and the Delete key with a selection
DeleteSelected ==
    /\ \/ \E id \in ElementIds(state.elements) :
             state' = Rendered(DELETE_SELECTED(ContextSelect(state, id)))
       \/ /\ Len(state.selectedIds) > 0
          /\ state' = Rendered(DELETE_SELECTED(state))
    /\ UNCHANGED nextId
    /\ NoPointer /\ NoRender

\* the content length taken at the rate 1x whatever the current rate
SpeedChangesFromUnit(el, newRate) ==
    LET contentLength == el.duration * UnitRate
        newDuration == contentLength \div newRate
    IN  [playbackRate |-> newRate, duration |-> newDuration]

\* the changes handleSpeedChange dispatches for one element
SpeedChanges(el, newRate) ==
    LET currentRate == RateOrOne(el)
        contentLength == el.duration * currentRate
        newDuration == contentLength \div newRate
    IN  [playbackRate |-> newRate, duration |-> newDuration]

\* RightSidebar handleSpeedChange: one UPDATE_ELEMENT per selected id, each
\* computed from the state of the render that installed the handler
RECURSIVE SpeedLoop(_, _, _, _, _)
SpeedLoop(s, snapshot, ids, k, newRate) ==
    IF k > Len(ids) THEN s
    ELSE LET el == FindById(snapshot.elements, ids[k])
         IN  IF el = <<>> THEN SpeedLoop(s, snapshot, ids, k + 1, newRate)
             ELSE SpeedLoop(UPDATE_ELEMENT(s, ids[k], SpeedChanges(el[1], newRate)),
                            snapshot, ids, k + 1, newRate)

handleSpeedChange(s, newRate) ==
    IF FindById(s.elements, PayloadOrFirstSelected(s, 0)) = <<>> THEN s
    ELSE SpeedLoop(s, s, s.selectedIds, 1, newRate)

SpeedChangeAt(rates) ==
    /\ state.selectedIds # <<>>
    /\ \E newRate \in rates :
          \* only rates at which every new duration is a whole number of ticks
          /\ \A i \in DOMAIN state.elements :
                Includes(state.selectedIds, state.elements[i].id) =>
                   (state.elements[i].duration * RateOrOne(state.elements[i])) % newRate = 0
          /\ state' = Rendered(handleSpeedChange(state, newRate))
    /\ UNCHANGED nextId
    /\ NoPointer /\ NoRender

SpeedChange == SpeedChangeAt(SpeedRates)

\* a whole marquee gesture (mouse down on the empty canvas, moves, mouse up)
\* between two corners <<startX, startY, currentX, currentY>>
MarqueeDrags == {<<120, 230, 0, 45>>, <<0, 45, 30, 48>>, <<0, 45, 2, 47>>}

MarqueeSelectAt(drags) ==
    /\ \E drag \in drags :
          /\ ~OverSomeBlock(state, drag[1], drag[2])
          /\ state' = Rendered(MarqueeResult(state,
                 [isSelecting |-> TRUE, startX |-> drag[1], startY |-> drag[2],
                  currentX |-> drag[3], currentY |-> drag[4]]))
    /\ UNCHANGED nextId
    /\ NoPointer /\ NoRender

MarqueeSelect == MarqueeSelectAt(MarqueeDrags)

Init ==
    /\ state = initialState
    /\ nextId = 1
    /\ dragState = NoDrag
    /\ selectionBox = NoBox
    /\ lastMove = NoMove
    /\ lastBox = NoBox
    /\ pointer = "idle"
    /\ media = <<>>
    /\ painted = <<>>
    /\ exportRun = NoExport
    /\ audioSourceNodeCache = <<>>
    /\ fade = NoFade
    /\ browser = AllSupported
    /\ playback = NoPlayback

Next ==
    \/ DropLibraryItem
    \/ AddText
    \/ CanvasClick
    \/ MenuCopy
    \/ MenuPaste
    \/ MenuSplit
    \/ ExtractAudio
    \/ DeleteSelected
    \/ SpeedChange
    \/ MarqueeSelect

Spec == Init /\ [][Next]_vars

\* the editor with clicks near the end of the timeline as well (SpecLateSeek)
NextLateSeek ==
    \/ Next
    \/ CanvasClickLate

SpecLateSeek == Init /\ [][NextLateSeek]_vars

\* the editor with every action of the reducer that sets the selection or
\* removes elements (SpecSelect)

\* Timeline.tsx ElementBlock onContextMenu: the right click selects the
\* element unless it is selected already, and opens the menu
ElementContextMenu ==
    /\ \E id \in ElementIds(state.elements) :
          state' = Rendered(ContextSelect(state, id))
    /\ UNCHANGED nextId
    /\ NoPointer /\ NoRender

\* the reducer's DELETE_ELEMENT for an element of the project
DeleteElement ==
    /\ \E id \in ElementIds(state.elements) :
          state' = Rendered(DELETE_ELEMENT(state, id))
    /\ UNCHANGED nextId
    /\ NoPointer /\ NoRender

NextSelect ==
    \/ DropLibraryItem
    \/ AddText
    \/ CanvasClick
    \/ MenuCopy
    \/ MenuPaste
    \/ MenuSplit
    \/ DeleteSelected
    \/ MarqueeSelect
    \/ ElementContextMenu
    \/ DeleteElement

SpecSelect == Init /\ [][NextSelect]_vars

----------------------------------------------------------------------------
(* Pointer gestures on the timeline, handler by handler.  SpecTimeline      *)
(* follows one gesture, from mouse down to mouse up, from each layout of    *)
(* InitTimeline: a later gesture is a gesture from another layout.          *)

DragTypes == {"move", "resize-start", "resize-end"}
DragDeltas == (-MaxDelta) .. MaxDelta
PointerYs == {HEADER_HEIGHT + r * (TRACK_HEIGHT + TRACK_GAP) + 45 : r \in 0 .. MaxRow}
MarqueeXs == {0, 22, 48, 120}
MarqueeYs == {45, 47, 140, 230}

\* Timeline.tsx handleElementMouseDown: the pointer goes down on the block
\* (move) or on a resize handle of an element
ElementMouseDown ==
    /\ pointer = "idle"
    /\ ~dragState.isDragging /\ ~selectionBox.isSelecting
    /\ \E i \in DOMAIN state.elements, type \in DragTypes :
          LET element == state.elements[i]
              isSelected == Includes(state.selectedIds, element.id)
              idsToMove == IF isSelected THEN state.selectedIds ELSE <<element.id>>
              moved == SelectSeq(state.elements, LAMBDA el : Includes(idsToMove, el.id))
          IN  /\ state' = IF isSelected THEN state ELSE Rendered(SELECT_ELEMENT(state, element.id))
              /\ dragState' =
                    [isDragging |-> TRUE, type |-> type, elementId |-> element.id,
                     startX |-> IF type = "resize-end"
                                THEN BlockLeft(element, state.zoom) + BlockWidth(element, state.zoom)
                                ELSE BlockLeft(element, state.zoom),
                     initialElements |->
                        [k \in DOMAIN moved |->
                            [id |-> moved[k].id, startTime |-> moved[k].startTime,
                             trackId |-> moved[k].trackId, duration |-> moved[k].duration]]]
    /\ pointer' = "pressed"
    /\ lastMove' = NoMove
    /\ UNCHANGED <<nextId, selectionBox, lastBox>>
    /\ NoRender

\* Timeline.tsx handleMouseMove while dragging: the pointer is at
\* currentX = startX + deltaSeconds * zoom and at currentY
DragMove ==
    /\ dragState.isDragging
    /\ \E deltaSeconds \in DragDeltas, currentY \in PointerYs :
          /\ state' = Rendered(DragStep(state, dragState, deltaSeconds, currentY))
          /\ lastMove' = [handled |-> TRUE, deltaSeconds |-> deltaSeconds,
                          currentY |-> currentY]
    /\ UNCHANGED <<nextId, dragState, selectionBox, lastBox, pointer>>
    /\ NoRender

\* Timeline.tsx handleCanvasMouseDown: the pointer goes down on the empty
\* canvas below the ruler
CanvasMouseDown ==
    /\ pointer = "idle"
    /\ ~dragState.isDragging /\ ~selectionBox.isSelecting
    /\ \E x \in MarqueeXs, y \in MarqueeYs :
          /\ ~OverSomeBlock(state, x, y)
          /\ selectionBox' = [isSelecting |-> TRUE, startX |-> x, startY |-> y,
                              currentX |-> x, currentY |-> y]
    /\ pointer' = "pressed"
    /\ UNCHANGED <<state, nextId, dragState, lastMove, lastBox>>
    /\ NoRender

\* Timeline.tsx handleMouseMove while the marquee is open
MarqueeMove ==
    /\ ~dragState.isDragging
    /\ selectionBox.isSelecting
    /\ \E x \in MarqueeXs, y \in MarqueeYs :
          selectionBox' = [selectionBox EXCEPT !.currentX = x, !.currentY = y]
    /\ UNCHANGED <<state, nextId, dragState, lastMove, lastBox, pointer>>
    /\ NoRender

\* Timeline.tsx handleMouseUp
MouseUp ==
    /\ dragState.isDragging \/ selectionBox.isSelecting
    /\ dragState' = IF dragState.isDragging THEN NoDrag ELSE dragState
    /\ IF selectionBox.isSelecting
       THEN /\ state' = Rendered(MarqueeResult(state, selectionBox))
            /\ selectionBox' = NoBox
       ELSE UNCHANGED <<state, selectionBox>>
    /\ lastMove' = NoMove
    /\ lastBox' = selectionBox
    /\ pointer' = "released"
    /\ UNCHANGED <<nextId>>
    /\ NoRender

\* The layouts the gestures start from: three clips, the first two short
\* enough for both of their edges to lie within one snap threshold
LayoutStarts1 == {0, 6}
LayoutDurations == {3, 5}
LayoutSelections == {<<>>, <<1, 2>>, <<1, 2, 3>>}
LayoutTimes == {0, 15}

InitTimeline ==
    /\ \E s1 \in LayoutStarts1, d1 \in LayoutDurations, d2 \in LayoutDurations,
          sel \in LayoutSelections, t \in LayoutTimes :
          state = [initialState EXCEPT
                     !.elements = <<NewElement(1, "VIDEO", "clip", s1, d1, 0, UnitTenths),
                                    NewElement(3, "TEXT", "Text Overlay", 20, 10, 0, 0),
                                    NewElement(2, "VIDEO", "clip", 4, d2, 1, UnitTenths)>>,
                     !.selectedIds = sel,
                     !.currentTime = t]
    /\ nextId = 4
    /\ dragState = NoDrag
    /\ selectionBox = NoBox
    /\ lastMove = NoMove
    /\ lastBox = NoBox
    /\ pointer = "idle"
    /\ media = <<>>
    /\ painted = <<>>
    /\ exportRun = NoExport
    /\ audioSourceNodeCache = <<>>
    /\ fade = NoFade
    /\ browser = AllSupported
    /\ playback = NoPlayback

NextTimeline ==
    \/ ElementMouseDown
    \/ DragMove
    \/ CanvasMouseDown
    \/ MarqueeMove
    \/ MouseUp

SpecTimeline == InitTimeline /\ [][NextTimeline]_vars

----------------------------------------------------------------------------
(* Exact rationals [n, d] with d > 0, in lowest terms *)

RECURSIVE Gcd(_, _)
Gcd(a, b) == IF b = 0 THEN a ELSE Gcd(b, a % b)

Rat(n, d) ==
    LET g == Gcd(Abs(n), Abs(d))
        sign == IF d < 0 THEN -1 ELSE 1
    IN  [n |-> (sign * n) \div g, d |-> (sign * d) \div g]

RInt(k) == [n |-> k, d |-> 1]
RAdd(a, b) == Rat(a.n * b.d + b.n * a.d, a.d * b.d)
RSub(a, b) == Rat(a.n * b.d - b.n * a.d, a.d * b.d)
RMul(a, b) == Rat(a.n * b.n, a.d * b.d)
RAbs(a) == [n |-> Abs(a.n), d |-> a.d]
RLess(a, b) == a.n * b.d < b.n * a.d
RMax(a, b) == IF RLess(a, b) THEN b ELSE a
RMin(a, b) == IF RLess(b, a) THEN b ELSE a

----------------------------------------------------------------------------
(* RightSidebar: what the preview and the export paint *)

CANVAS_LANDSCAPE == 1280
CANVAS_PORTRAIT == 720

\* the four values Math.random() contributes to one Glitch transform:
\* (r - 0.5) * 60, (r - 0.5) * 30, (r - 0.5) * 0.1 and (r - 0.5) * 5
Jitters ==
    {[dx |-> RInt(-30), dy |-> RInt(-15), ds |-> Rat(-1, 20), dr |-> Rat(-5, 2)],
     [dx |-> RInt(12), dy |-> RInt(6), ds |-> Rat(1, 50), dr |-> RInt(1)]}

NoJitter == [dx |-> RInt(0), dy |-> RInt(0), ds |-> RInt(0), dr |-> RInt(0)]

\* the resolver with a single turn in place of two for Spin
getProceduralTransformOneTurn(el, currentTime, canvasMode, isPlaying, jitter) ==
    LET progress == Rat(currentTime - el.startTime, el.duration)
        clampedProgress == RMax(RInt(0), RMin(RInt(1), progress))
        fromMiddle == RAbs(RSub(clampedProgress, Rat(1, 2)))
    IN  [x |-> RInt(el.x), y |-> RInt(el.y),
         rotation |-> RAdd(RInt(el.rotation), RMul(clampedProgress, RInt(360))),
         scale |-> RMul(Rat(el.scale, UnitTenths),
                        RSub(RInt(1), RMul(fromMiddle, Rat(1, 2)))),
         opacityMultiplier |-> RInt(1)]

getProceduralTransform(el, currentTime, canvasMode, isPlaying, jitter) ==
    LET progress == Rat(currentTime - el.startTime, el.duration)
        clampedProgress == RMax(RInt(0), RMin(RInt(1), progress))
        x == RInt(el.x)
        y == RInt(el.y)
        rotation == RInt(el.rotation)
        scale == Rat(el.scale, UnitTenths)
        canvasWidth == RInt(IF canvasMode = "portrait" THEN CANVAS_PORTRAIT
                            ELSE CANVAS_LANDSCAPE)
        fromMiddle == RAbs(RSub(clampedProgress, Rat(1, 2)))
        plain == [x |-> x, y |-> y, rotation |-> rotation, scale |-> scale,
                  opacityMultiplier |-> RInt(1)]
    IN  IF el.name = "Spin"
        THEN [plain EXCEPT
                !.rotation = RAdd(rotation, RMul(clampedProgress, RInt(720))),
                !.scale = RMul(scale, RSub(RInt(1), RMul(fromMiddle, Rat(1, 2))))]
        ELSE IF el.name = "Swipe Left"
        THEN [plain EXCEPT
                !.x = RAdd(x, RSub(canvasWidth,
                                   RMul(RMul(clampedProgress, canvasWidth), RInt(2))))]
        ELSE IF el.name = "Swipe Right"
        THEN [plain EXCEPT
                !.x = RAdd(x, RAdd(RSub(RInt(0), canvasWidth),
                                   RMul(RMul(clampedProgress, canvasWidth), RInt(2))))]
        ELSE IF el.name = "Glitch"
        THEN (IF isPlaying
              THEN [plain EXCEPT
                      !.x = RAdd(x, jitter.dx),
                      !.y = RAdd(y, jitter.dy),
                      !.scale = RMul(scale, RAdd(RInt(1), jitter.ds)),
                      !.rotation = RAdd(rotation, jitter.dr)]
              ELSE plain)
        ELSE IF el.name = "Fade Black" \/ el.name = "Fade White"
        THEN [plain EXCEPT
                !.opacityMultiplier = RSub(RInt(1), RMul(fromMiddle, RInt(2)))]
        ELSE plain

\* the fade with its else branch left out: a fade-in only
FadeMultiplierFadeInOnly(el, clipTime) ==
    IF el.fadeIn > 0 /\ clipTime < el.fadeIn
    THEN RMax(RInt(0), Rat(clipTime, el.fadeIn))
    ELSE RInt(1)

\* the fade multiplier at clipTime, as MediaLayer and the export tick
\* compute it
FadeMultiplier(el, clipTime) ==
    IF el.fadeIn > 0 /\ clipTime < el.fadeIn
    THEN RMax(RInt(0), Rat(clipTime, el.fadeIn))
    ELSE IF el.fadeOut > 0 /\ clipTime > el.duration - el.fadeOut
    THEN RMax(RInt(0), Rat(el.duration - clipTime, el.fadeOut))
    ELSE RInt(1)

IsMedia(el) == el.type = "VIDEO" \/ el.type = "AUDIO"

\* the half-open activity interval
IsActiveAt(el, t) == t >= el.startTime /\ t < el.startTime + el.duration

\* one painted layer; shown is FALSE for an element the path leaves out or
\* hides
Layer(shown, opacity, transform) ==
    [shown |-> shown, opacity |-> opacity, x |-> transform.x, y |-> transform.y,
     scale |-> transform.scale, rotation |-> transform.rotation]

\* the preview's layer of one element: MediaLayer's div for a video, the
\* conditional div for an image or a text, nothing for an audio
PreviewLayer(el, s, jitter) ==
    LET transform == getProceduralTransform(el, s.currentTime, s.canvasMode,
                                            s.isPlaying, jitter)
        timeOnTrack == s.currentTime - el.startTime
        isVisible == timeOnTrack >= 0 /\ timeOnTrack <= el.duration
        opacity == RMul(Rat(el.opacity, UnitTenths), transform.opacityMultiplier)
    IN  IF el.type = "VIDEO"
        THEN Layer(isVisible, IF isVisible THEN opacity ELSE RInt(0), transform)
        ELSE IF el.type = "AUDIO"
        THEN Layer(FALSE, RInt(0), transform)
        ELSE Layer(s.currentTime >= el.startTime
                      /\ s.currentTime < el.startTime + el.duration,
                   opacity, transform)

PreviewPaint(s, jitter) ==
    [id \in ElementIds(s.elements) |-> PreviewLayer(FindById(s.elements, id)[1], s, jitter)]

\* the export tick's drawing of one element at elapsed
ExportLayer(el, elapsed, canvasMode, jitter) ==
    LET isActive == elapsed >= el.startTime /\ elapsed < el.startTime + el.duration
        clipTime == elapsed - el.startTime
        transform == getProceduralTransform(el, elapsed, canvasMode, TRUE, jitter)
        alpha == RMul(RMul(Rat(el.opacity, UnitTenths), FadeMultiplier(el, clipTime)),
                      transform.opacityMultiplier)
    IN  IF el.type = "AUDIO" THEN Layer(FALSE, RInt(0), transform)
        ELSE Layer(isActive, alpha, transform)

ExportPaint(elements, elapsed, canvasMode, jitter) ==
    [id \in ElementIds(elements) |->
        ExportLayer(FindById(elements, id)[1], elapsed, canvasMode, jitter)]

\* the ids of a sequence of elements, in its order
IdsOf(elements) == [i \in DOMAIN elements |-> elements[i].id]

\* the order in which the preview stacks what it shows: the order of the
\* sorted state.elements, later siblings over earlier ones
PreviewPaintOrder(s) ==
    IdsOf(SelectSeq(s.elements, LAMBDA el : PreviewLayer(el, s, NoJitter).shown))

\* the order in which a tick draws on the canvas: the active videos in the
\* pass over state.elements, then the active images and texts
ExportPaintOrder(elements, elapsed) ==
    IdsOf(SelectSeq(elements, LAMBDA el : el.type = "VIDEO" /\ IsActiveAt(el, elapsed)))
    \o IdsOf(SelectSeq(elements, LAMBDA el : ~IsMedia(el) /\ IsActiveAt(el, elapsed)))

----------------------------------------------------------------------------
(* RightSidebar: MediaLayer and the export loop drive the media elements.   *)
(* The position of a media element (its currentTime) is counted in          *)
(* quarters of a tick, so that a position reached at any rate is whole.     *)

SYNC_TOLERANCE_PLAYING == 4
SYNC_TOLERANCE_PAUSED == 1
SYNC_TOLERANCE_EXPORT == 2
JUMP_THRESHOLD == 10
EXPORT_FLOOR == 10

\* a media element as the browser creates it; the video tag carries
\* muted={element.volume === 0}
FreshMedia(el) ==
    [currentTime |-> 0, paused |-> TRUE, volume |-> RInt(1),
     muted |-> (el.type = "VIDEO" /\ el.volume = 0),
     playbackRate |-> UnitRate, lastSyncTime |-> -JUMP_THRESHOLD]

\* the target with the playback rate left out
TargetMediaTimeUnscaled(el, timeOnTrack) ==
    el.trimStart * UnitRate + timeOnTrack * UnitRate

\* trimStart + timeOnTrack * rate, in quarters of a tick
TargetMediaTime(el, timeOnTrack) ==
    el.trimStart * UnitRate + timeOnTrack * RateOrOne(el)

\* the effect of MediaLayer on its media element m
MediaLayerEffect(m, el, s) ==
    LET rate == RateOrOne(el)
        timeOnTrack == s.currentTime - el.startTime
        isWithinTimelineBounds == timeOnTrack >= 0 /\ timeOnTrack <= el.duration
        targetMediaTime == TargetMediaTime(el, timeOnTrack)
        diff == Abs(m.currentTime - targetMediaTime)
        isJump == Abs(s.currentTime - m.lastSyncTime) > JUMP_THRESHOLD
        rated == [m EXCEPT !.playbackRate = rate]
        synced ==
            IF s.isPlaying
            THEN [rated EXCEPT
                    !.paused = FALSE,
                    !.currentTime = IF diff > SYNC_TOLERANCE_PLAYING * UnitRate \/ isJump
                                    THEN targetMediaTime ELSE @]
            ELSE [rated EXCEPT
                    !.paused = TRUE,
                    !.currentTime = IF diff > SYNC_TOLERANCE_PAUSED * UnitRate
                                    THEN targetMediaTime ELSE @]
    IN  IF ~isWithinTimelineBounds THEN [rated EXCEPT !.paused = TRUE]
        ELSE [synced EXCEPT
                !.lastSyncTime = s.currentTime,
                !.volume = RMul(Rat(el.volume, UnitTenths),
                                FadeMultiplier(el, timeOnTrack))]

\* the effects of all MediaLayers after a render: an effect runs when
\* currentTime or isPlaying has changed (the elements do not change here)
MediaEffects(med, old, new) ==
    [id \in DOMAIN med |->
        IF old.currentTime # new.currentTime \/ old.isPlaying # new.isPlaying
        THEN MediaLayerEffect(med[id], FindById(new.elements, id)[1], new)
        ELSE med[id]]

\* the export tick on the media element of one video or audio element
ExportMediaSync(m, el, elapsed) ==
    LET isActive == elapsed >= el.startTime /\ elapsed < el.startTime + el.duration
        clipTime == elapsed - el.startTime
        targetTime == TargetMediaTime(el, clipTime)
    IN  IF isActive
        THEN [m EXCEPT
                !.playbackRate = RateOrOne(el),
                !.currentTime = IF Abs(@ - targetTime) > SYNC_TOLERANCE_EXPORT * UnitRate
                                THEN targetTime ELSE @,
                !.paused = FALSE]
        ELSE [m EXCEPT !.paused = TRUE]

\* gainNode.gain.value after a tick: set while the element is active
ExportGain(gain, el, elapsed) ==
    IF elapsed >= el.startTime /\ elapsed < el.startTime + el.duration
    THEN RMul(Rat(el.volume, UnitTenths), FadeMultiplier(el, elapsed - el.startTime))
    ELSE gain

\* elements.reduce((max, el) => Math.max(max, el.startTime + el.duration), 0)
RECURSIVE ContentEnd(_, _)
ContentEnd(elements, i) ==
    IF i > Len(elements) THEN 0
    ELSE Max(endTime(elements[i]), ContentEnd(elements, i + 1))

\* the nominal duration of the project in place of the content's extent
ExportDurationOfProject(elements) == state.duration

ExportDuration(elements) == Max(EXPORT_FLOOR, ContentEnd(elements, 1))

\* recorder.onstop; the locals of handleExport are dropped with the run
RecorderStopped(run, med) ==
    [exportRun |-> [NoExport EXCEPT !.earlier = run.earlier],
     media |-> [id \in DOMAIN med |->
                  IF id \in DOMAIN run.originalMediaStates
                  THEN [med[id] EXCEPT !.muted = run.originalMediaStates[id].muted,
                                       !.volume = run.originalMediaStates[id].volume]
                  ELSE med[id]]]

\* one call of tick at elapsed
ExportTickBody(run, med, elapsed, jitter) ==
    IF elapsed > run.exportDuration
    THEN RecorderStopped(run, med)
    ELSE [exportRun |->
             [run EXCEPT
                !.elapsed = elapsed,
                !.gain = [id \in DOMAIN @ |->
                            ExportGain(@[id], FindById(run.snapshot.elements, id)[1], elapsed)],
                !.frame = ExportPaint(run.snapshot.elements, elapsed,
                                      run.snapshot.canvasMode, jitter),
                !.drawn = ExportPaintOrder(run.snapshot.elements, elapsed)],
          media |->
             [id \in DOMAIN med |->
                IF id \in ElementIds(run.snapshot.elements)
                THEN ExportMediaSync(med[id], FindById(run.snapshot.elements, id)[1], elapsed)
                ELSE med[id]]]

\* handleExport, the audio graph with no test of the cache: every run makes
\* a node for every media element it mixes
SourceNodesUncached(cache, mixed) ==
    [id \in DOMAIN cache \cup mixed |->
        IF id \notin mixed THEN cache[id]
        ELSE IF id \in DOMAIN cache THEN cache[id] + 1
        ELSE 1]

\* handleExport, the audio graph: a media element that is to be mixed and has
\* no node in the cache gets one made by createMediaElementSource, one that
\* has a node gets that node again
SourceNodes(cache, mixed) ==
    [id \in DOMAIN cache \cup mixed |-> IF id \in DOMAIN cache THEN cache[id] ELSE 1]

\* where the source of each mixed media element came from in this run
SourceOrigins(cache, mixed) ==
    [id \in mixed |-> IF id \in DOMAIN cache THEN "cached" ELSE "created"]

\* recorder.state of the run's MediaRecorder: it records from recorder.start()
\* until recorder.stop(), also in a run whose setup has failed after the start
RecorderState(run) ==
    IF run.phase \in {"recording", "failed"} THEN "recording" ELSE "inactive"

\* one call of tick at elapsed that raises an exception in the pass over the
\* overlays: the media elements are driven and the videos drawn, no image
\* or text is drawn, the catch logs the error
ThrowingTickBody(run, med, elapsed, jitter) ==
    LET done == ExportTickBody(run, med, elapsed, jitter)
        elements == run.snapshot.elements
    IN  [exportRun |->
            [done.exportRun EXCEPT
               !.frame = [id \in DOMAIN @ |->
                            IF IsMedia(FindById(elements, id)[1]) THEN @[id]
                            ELSE [@[id] EXCEPT !.shown = FALSE]],
               !.drawn = IdsOf(SelectSeq(elements,
                               LAMBDA el : el.type = "VIDEO" /\ IsActiveAt(el, elapsed))),
               !.frameErrors = @ + 1],
         media |-> done.media]

----------------------------------------------------------------------------
(* Preview and export, handler by handler (SpecRender).  Time moves over    *)
(* the instants of RenderTimes: a frame callback may come any time later.   *)

MaxMediaTime == 60      \* the media elements play on by themselves up to here

RenderTimes == {0, 8, 10, 21, 606}

\* the wall time that passes in one step of the media playing on, in ticks
ADVANCE == 3

\* the draws of Math.random() a paint can make
JitterChoices(elements, isPlaying) ==
    IF isPlaying /\ \E i \in DOMAIN elements : elements[i].name = "Glitch"
    THEN Jitters ELSE {NoJitter}

\* the playback loop's effect with the playhead left out of the start: the
\* loop counts from zero
PlaybackEffectFromZero(pb, old, new) ==
    IF old.isPlaying # new.isPlaying \/ old.seekVersion # new.seekVersion
    THEN IF new.isPlaying
         THEN [running |-> TRUE, startOffset |-> 0, duration |-> new.duration,
               elapsed |-> 0]
         ELSE NoPlayback
    ELSE pb

\* App.tsx playback loop: the effect runs after a render in which isPlaying
\* or seekVersion has changed; it starts a loop at the playhead of that
\* render, or cancels the frame requested
PlaybackEffect(pb, old, new) ==
    IF old.isPlaying # new.isPlaying \/ old.seekVersion # new.seekVersion
    THEN IF new.isPlaying
         THEN [running |-> TRUE, startOffset |-> new.currentTime, duration |-> new.duration,
               elapsed |-> 0]
         ELSE NoPlayback
    ELSE pb

\* the state s2 is dispatched: the sidebar renders it and the effects of the
\* MediaLayers run
RenderAfter(s2) ==
    /\ state' = s2
    /\ media' = MediaEffects(media, state, s2)
    /\ playback' = PlaybackEffect(playback, state, s2)
    /\ \E jitter \in JitterChoices(s2.elements, s2.isPlaying) :
          painted' = PreviewPaint(s2, jitter)

NoEditorChange ==
    UNCHANGED <<nextId, dragState, selectionBox, lastMove, lastBox, pointer, fade, browser>>

\* nor is the audio graph of the export set up
NoEdit == NoEditorChange /\ UNCHANGED audioSourceNodeCache

\* Timeline.tsx handleCanvasClick, out of reach under the export overlay
Scrub ==
    /\ ~exportRun.isExporting
    /\ state.seekVersion < MaxSeeks
    /\ \E time \in RenderTimes : RenderAfter(Rendered(SEEK(DESELECT_ALL(state), time)))
    /\ UNCHANGED exportRun
    /\ NoEdit

\* App.tsx handleKeyDown, the space bar
TogglePlay ==
    /\ RenderAfter(Rendered(TOGGLE_PLAY(state)))
    /\ UNCHANGED exportRun
    /\ NoEdit

\* App.tsx playback loop: one call of animate
PlaybackFrame ==
    /\ playback.running
    /\ \E elapsed \in {time - playback.startOffset : time \in RenderTimes} :
          LET newTime == playback.startOffset + elapsed
              s2 == Rendered(IF newTime >= playback.duration THEN TOGGLE_PLAY(state)
                             ELSE SET_TIME(state, newTime))
          IN  /\ elapsed >= playback.elapsed
              /\ state' = s2
              /\ media' = MediaEffects(media, state, s2)
              /\ playback' = PlaybackEffect([playback EXCEPT !.elapsed = elapsed], state, s2)
              /\ \E jitter \in JitterChoices(s2.elements, s2.isPlaying) :
                    painted' = PreviewPaint(s2, jitter)
    /\ UNCHANGED exportRun
    /\ NoEdit

\* the browser plays the media elements that are not paused: wall time
\* passes on each of them at its playbackRate
MediaAdvance ==
    /\ \E id \in DOMAIN media : ~media[id].paused
    /\ \A id \in DOMAIN media :
          ~media[id].paused =>
             media[id].currentTime + ADVANCE * media[id].playbackRate <= MaxMediaTime
    /\ media' = [id \in DOMAIN media |->
                   IF media[id].paused THEN media[id]
                   ELSE [media[id] EXCEPT !.currentTime = @ + ADVANCE * media[id].playbackRate]]
    /\ UNCHANGED <<state, painted, exportRun, playback>>
    /\ NoEdit

\* RightSidebar handleExport, from the click to its first await.  One run is
\* followed at a time: the click comes when no earlier run is preparing or
\* recording
StartExport ==
    /\ ~exportRun.isExporting
    /\ exportRun.phase = "idle"
    /\ LET mimeType == FindMimeType(browser, 1) IN
       IF mimeType = NoMimeType
       THEN /\ exportRun' = [exportRun EXCEPT !.alert = UnsupportedAlert]
            /\ UNCHANGED <<state, media, painted, playback>>
       ELSE /\ exportRun' = [NoExport EXCEPT !.isExporting = TRUE, !.phase = "preparing",
                                             !.mimeType = mimeType,
                                             !.earlier = exportRun.earlier,
                                             !.snapshot = [elements |-> state.elements,
                                                           canvasMode |-> state.canvasMode]]
            /\ RenderAfter(IF state.isPlaying THEN Rendered(TOGGLE_PLAY(state)) ELSE state)
    /\ NoEdit

\* RightSidebar handleExport, after its awaits: the audio graph, the
\* recorder and the first call of tick
BeginRecording ==
    /\ exportRun.phase = "preparing"
    /\ LET elements == exportRun.snapshot.elements
           mixed == {id \in DOMAIN media : id \in ElementIds(elements)}
           run == [exportRun EXCEPT
                     !.phase = "recording",
                     !.exportDuration = ExportDuration(elements),
                     !.originalMediaStates =
                         [id \in mixed |-> [muted |-> media[id].muted,
                                            volume |-> media[id].volume]],
                     !.gain = [id \in mixed |->
                                 Rat(FindById(elements, id)[1].volume, UnitTenths)],
                     !.source = SourceOrigins(audioSourceNodeCache, mixed)]
           unmuted == [id \in DOMAIN media |->
                         IF id \in mixed
                         THEN [media[id] EXCEPT !.muted = FALSE, !.volume = RInt(1)]
                         ELSE media[id]]
       IN  \E jitter \in JitterChoices(elements, TRUE) :
              \E after \in {ExportTickBody(run, unmuted, 0, jitter)} :
                  /\ exportRun' = after.exportRun /\ media' = after.media
                  /\ audioSourceNodeCache' = SourceNodes(audioSourceNodeCache, mixed)
    /\ UNCHANGED <<state, painted, playback>>
    /\ NoEditorChange

\* RightSidebar handleExport, after its awaits, when canvas.getContext
\* yields null: the audio graph is set up and the recorder started, the
\* throw is caught by the outer catch, which calls setIsExporting(false); no
\* tick is ever called
ExportFailure ==
    /\ exportRun.phase = "preparing"
    /\ LET elements == exportRun.snapshot.elements
           mixed == {id \in DOMAIN media : id \in ElementIds(elements)}
       IN  /\ exportRun' = [exportRun EXCEPT
                              !.isExporting = FALSE,
                              !.phase = "failed",
                              !.exportDuration = ExportDuration(elements),
                              !.originalMediaStates =
                                  [id \in mixed |-> [muted |-> media[id].muted,
                                                     volume |-> media[id].volume]],
                              !.gain = [id \in mixed |->
                                          Rat(FindById(elements, id)[1].volume, UnitTenths)],
                              !.source = SourceOrigins(audioSourceNodeCache, mixed)]
           /\ media' = [id \in DOMAIN media |->
                          IF id \in mixed
                          THEN [media[id] EXCEPT !.muted = FALSE, !.volume = RInt(1)]
                          ELSE media[id]]
           /\ audioSourceNodeCache' = SourceNodes(audioSourceNodeCache, mixed)
    /\ UNCHANGED <<state, painted, playback>>
    /\ NoEditorChange

\* the test at the top of tick: it returns at once only when the closure's
\* isExporting is false and the recorder is not recording
TickReturnsAtOnce(run) == ~run.closureIsExporting /\ run.phase # "recording"

\* RightSidebar handleExport: a call of tick by requestAnimationFrame; a tick
\* is scheduled by the tick before it, while the recorder records
ExportTick ==
    /\ exportRun.phase = "recording"
    /\ ~TickReturnsAtOnce(exportRun)
    /\ \E elapsed \in RenderTimes,
          jitter \in JitterChoices(exportRun.snapshot.elements, TRUE) :
          /\ elapsed > exportRun.elapsed
          /\ \E after \in {ExportTickBody(exportRun, media, elapsed, jitter)} :
                 exportRun' = after.exportRun /\ media' = after.media
    /\ UNCHANGED <<state, painted, playback>>
    /\ NoEdit

\* RightSidebar: the Cancel button of the export overlay
CancelExport ==
    /\ exportRun.isExporting
    /\ exportRun' = [exportRun EXCEPT !.isExporting = FALSE]
    /\ UNCHANGED <<state, media, painted, playback>>
    /\ NoEdit

\* The projects the render starts from
Plain == [opacity |-> UnitTenths, fadeIn |-> 0, fadeOut |-> 0, trimStart |-> 0,
          playbackRate |-> UnitRate]
Styled == [opacity |-> 5, fadeIn |-> 5, fadeOut |-> 5, trimStart |-> 20,
           playbackRate |-> 2 * UnitRate]

Looks == {Plain, Styled}
TransitionNames == {"Fade Black", "Spin", "Swipe Left", "Swipe Right", "Glitch"}

Clip(id, type, name, startTime, duration, trackId, look) ==
    Merge(NewElement(id, type, name, startTime, duration, trackId, UnitTenths), look)

\* a video under a transition or a text; two adjacent videos; a text under a
\* video; a video over its
\* extracted audio; a clip shorter than a second; a clip that ends past the
\* project's duration
Projects ==
    {<<Clip(1, "VIDEO", "clip", 0, 10, 0, Styled),
       Clip(2, "IMAGE", name, 5, 10, 1, [Plain EXCEPT !.fadeIn = Styled.fadeIn])>> :
        name \in TransitionNames}
    \cup {<<Clip(1, "VIDEO", "clip", 0, 10, 0, Plain),
            Clip(2, "TEXT", "Text Overlay", 5, 10, 1, Plain)>>}
    \cup {<<Clip(1, "VIDEO", "clip", 0, 10, 0, Plain),
            Clip(2, "VIDEO", "clip", 10, 10, 0, Styled)>>}
    \cup {<<Clip(1, "TEXT", "Text Overlay", 0, 10, 0, Plain),
            Clip(2, "VIDEO", "clip", 0, 10, 1, Plain)>>}
    \cup {<<Clip(1, "VIDEO", "clip", 0, 10, 0, [look EXCEPT !.fadeIn = 0]),
            Clip(2, "AUDIO", "clip (Audio)", 0, 10, 1, look)>> : look \in Looks}
    \cup {<<Clip(1, "VIDEO", "clip", 0, 5, 0, Plain)>>,
          <<Clip(1, "VIDEO", "clip", 598, 7, 0, Plain)>>}

InitRender ==
    /\ \E project \in Projects :
          /\ state = [initialState EXCEPT !.elements = project]
          /\ media = [id \in {project[i].id : i \in {i \in DOMAIN project : IsMedia(project[i])}} |->
                         MediaLayerEffect(FreshMedia(FindById(project, id)[1]),
                                          FindById(project, id)[1],
                                          [initialState EXCEPT !.elements = project])]
          /\ painted = PreviewPaint([initialState EXCEPT !.elements = project], NoJitter)
    /\ nextId = 3
    /\ dragState = NoDrag
    /\ selectionBox = NoBox
    /\ lastMove = NoMove
    /\ lastBox = NoBox
    /\ pointer = "idle"
    /\ exportRun = NoExport
    /\ audioSourceNodeCache = <<>>
    /\ fade = NoFade
    /\ browser = AllSupported
    /\ playback = NoPlayback

NextRender ==
    \/ Scrub
    \/ TogglePlay
    \/ PlaybackFrame
    \/ MediaAdvance
    \/ StartExport
    \/ BeginRecording
    \/ ExportTick
    \/ ExportFailure
    \/ CancelExport

SpecRender == InitRender /\ [][NextRender]_vars

----------------------------------------------------------------------------
(* The same preview and export in browsers whose MediaRecorder supports     *)
(* some, all or none of the types handleExport asks about (SpecExport).     *)

\* what MediaRecorder.isTypeSupported accepts: nothing, WebM only, WebM
\* without VP9, everything but MP4, everything
Browsers ==
    {{},
     {"video/webm"},
     {"video/webm;codecs=vp8", "video/webm"},
     {"video/webm;codecs=vp9", "video/webm;codecs=vp8", "video/webm"},
     AllSupported}

\* a clip shorter than a second; a text under a video
ExportProjects ==
    {<<Clip(1, "VIDEO", "clip", 0, 5, 0, Plain)>>,
     <<Clip(1, "TEXT", "Text Overlay", 0, 10, 0, Plain),
       Clip(2, "VIDEO", "clip", 0, 10, 1, Plain)>>}

InitExport ==
    /\ \E project \in ExportProjects :
          /\ state = [initialState EXCEPT !.elements = project]
          /\ media = [id \in {project[i].id : i \in {i \in DOMAIN project : IsMedia(project[i])}} |->
                         MediaLayerEffect(FreshMedia(FindById(project, id)[1]),
                                          FindById(project, id)[1],
                                          [initialState EXCEPT !.elements = project])]
          /\ painted = PreviewPaint([initialState EXCEPT !.elements = project], NoJitter)
    /\ nextId = 3
    /\ dragState = NoDrag
    /\ selectionBox = NoBox
    /\ lastMove = NoMove
    /\ lastBox = NoBox
    /\ pointer = "idle"
    /\ exportRun = NoExport
    /\ audioSourceNodeCache = <<>>
    /\ fade = NoFade
    /\ browser \in Browsers
    /\ playback = NoPlayback

SpecExport == InitExport /\ [][NextRender]_vars

----------------------------------------------------------------------------
(* The export of a text under a video, with ticks that raise an exception   *)
(* while drawing, under the scheduling of the browser (SpecExportLive):     *)
(* handleExport goes on after its awaits, and a frame requested with        *)
(* requestAnimationFrame is called.                                         *)

MaxFrameErrors == 2     \* ticks of one run that raise an exception

\* RightSidebar handleExport: a call of tick whose drawing raises an
\* exception; the catch logs it and requests the next frame
ExportTickThrows ==
    /\ exportRun.phase = "recording"
    /\ ~TickReturnsAtOnce(exportRun)
    /\ exportRun.frameErrors < MaxFrameErrors
    /\ \E elapsed \in RenderTimes,
          jitter \in JitterChoices(exportRun.snapshot.elements, TRUE) :
          /\ elapsed > exportRun.elapsed
          /\ elapsed <= exportRun.exportDuration
          /\ \E after \in {ThrowingTickBody(exportRun, media, elapsed, jitter)} :
                 exportRun' = after.exportRun /\ media' = after.media
    /\ UNCHANGED <<state, painted, playback>>
    /\ NoEdit

\* a text under a video; a video under a transition
LiveProjects ==
    {<<Clip(1, "TEXT", "Text Overlay", 0, 10, 0, Plain),
       Clip(2, "VIDEO", "clip", 0, 10, 1, Plain)>>}

InitLive ==
    /\ \E project \in LiveProjects :
          /\ state = [initialState EXCEPT !.elements = project]
          /\ media = [id \in {project[i].id : i \in {i \in DOMAIN project : IsMedia(project[i])}} |->
                         MediaLayerEffect(FreshMedia(FindById(project, id)[1]),
                                          FindById(project, id)[1],
                                          [initialState EXCEPT !.elements = project])]
          /\ painted = PreviewPaint([initialState EXCEPT !.elements = project], NoJitter)
    /\ nextId = 3
    /\ dragState = NoDrag
    /\ selectionBox = NoBox
    /\ lastMove = NoMove
    /\ lastBox = NoBox
    /\ pointer = "idle"
    /\ exportRun = NoExport
    /\ audioSourceNodeCache = <<>>
    /\ fade = NoFade
    /\ browser = AllSupported
    /\ playback = NoPlayback

\* the handlers of the export and the media playing on; the playhead of the
\* preview stays where it is
NextLive ==
    \/ MediaAdvance
    \/ StartExport
    \/ BeginRecording
    \/ ExportTick
    \/ ExportTickThrows
    \/ ExportFailure
    \/ CancelExport

SpecExportLive ==
    /\ InitLive
    /\ [][NextLive]_vars
    /\ WF_vars(BeginRecording \/ ExportFailure)
    /\ WF_vars(ExportTick \/ ExportTickThrows)

----------------------------------------------------------------------------
(* The export started again while the recorder of a cancelled run records   *)
(* (SpecExportAgain).                                                       *)

\* RightSidebar handleExport, called when isExporting is false and the
\* recorder of the run before has not stopped: the locals of that run live on
\* in its tick and its recorder
StartExportOver ==
    /\ ~exportRun.isExporting
    /\ exportRun.phase \in {"recording", "failed"}
    /\ exportRun.earlier = <<>>
    /\ FindMimeType(browser, 1) # NoMimeType
    /\ exportRun' = [NoExport EXCEPT !.isExporting = TRUE, !.phase = "preparing",
                                     !.mimeType = FindMimeType(browser, 1),
                                     !.earlier = exportRun,
                                     !.snapshot = [elements |-> state.elements,
                                                   canvasMode |-> state.canvasMode]]
    /\ RenderAfter(IF state.isPlaying THEN Rendered(TOGGLE_PLAY(state)) ELSE state)
    /\ NoEdit

\* a call of the earlier run's tick; when it stops its recorder, onstop
\* restores the media elements and calls setIsExporting(false)
EarlierTick ==
    /\ exportRun.earlier # <<>>
    /\ exportRun.earlier.phase = "recording"
    /\ \E elapsed \in RenderTimes,
          jitter \in JitterChoices(exportRun.earlier.snapshot.elements, TRUE) :
          /\ elapsed > exportRun.earlier.elapsed
          /\ \E after \in {ExportTickBody(exportRun.earlier, media, elapsed, jitter)} :
                 /\ exportRun' =
                       IF after.exportRun.phase = "idle"
                       THEN [exportRun EXCEPT !.earlier = <<>>, !.isExporting = FALSE]
                       ELSE [exportRun EXCEPT !.earlier = after.exportRun]
                 /\ media' = after.media
    /\ UNCHANGED <<state, painted, playback>>
    /\ NoEdit

NextAgain ==
    \/ NextLive
    \/ StartExportOver
    \/ EarlierTick

SpecExportAgain == InitLive /\ [][NextAgain]_vars

----------------------------------------------------------------------------
(* The playhead moved while the preview plays (SpecPlayhead).               *)

\* RightSidebar: the rewind button under the preview, out of reach under
\* the export overlay
Rewind ==
    /\ ~exportRun.isExporting
    /\ RenderAfter(Rendered(SET_TIME(state, 0)))
    /\ UNCHANGED exportRun
    /\ NoEdit

InitPlayhead ==
    /\ \E project \in LiveProjects :
          /\ state = [initialState EXCEPT !.elements = project]
          /\ media = [id \in {project[i].id : i \in {i \in DOMAIN project : IsMedia(project[i])}} |->
                         MediaLayerEffect(FreshMedia(FindById(project, id)[1]),
                                          FindById(project, id)[1],
                                          [initialState EXCEPT !.elements = project])]
          /\ painted = PreviewPaint([initialState EXCEPT !.elements = project], NoJitter)
    /\ nextId = 3
    /\ dragState = NoDrag
    /\ selectionBox = NoBox
    /\ lastMove = NoMove
    /\ lastBox = NoBox
    /\ pointer = "idle"
    /\ exportRun = NoExport
    /\ audioSourceNodeCache = <<>>
    /\ fade = NoFade
    /\ browser = AllSupported
    /\ playback = NoPlayback

NextPlayhead ==
    \/ Scrub
    \/ Rewind
    \/ TogglePlay
    \/ PlaybackFrame
    \/ MediaAdvance

SpecPlayhead == InitPlayhead /\ [][NextPlayhead]_vars

----------------------------------------------------------------------------
(* The speed slider of the sidebar over three clips, one to a track, with   *)
(* every selection a marquee can make (SpecSpeed).                          *)

\* positions of the slider: 0.5x, 1x and 2x
SliderRates == {UnitRate \div 2, UnitRate, 2 * UnitRate}

SpeedProject ==
    <<Clip(1, "VIDEO", "clip", 4, 8, 0, Plain),
      Clip(2, "AUDIO", "Extracted Audio", 4, 16, 1, [Plain EXCEPT !.trimStart = 20]),
      Clip(3, "VIDEO", "clip", 8, 24, 2, Styled)>>

\* marquees from the empty strip left of the clips over one, two or three tracks
SpeedMarquees ==
    {<<0, 45, 30, 48>>, <<0, 135, 30, 140>>, <<0, 225, 45, 230>>,
     <<0, 45, 30, 140>>, <<0, 135, 45, 230>>, <<0, 45, 45, 230>>}

InitSpeed ==
    /\ state = [initialState EXCEPT !.elements = SpeedProject]
    /\ nextId = 4
    /\ dragState = NoDrag
    /\ selectionBox = NoBox
    /\ lastMove = NoMove
    /\ lastBox = NoBox
    /\ pointer = "idle"
    /\ media = <<>>
    /\ painted = <<>>
    /\ exportRun = NoExport
    /\ audioSourceNodeCache = <<>>
    /\ fade = NoFade
    /\ browser = AllSupported
    /\ playback = NoPlayback

NextSpeed ==
    \/ MarqueeSelectAt(SpeedMarquees)
    \/ SpeedChangeAt(SliderRates)

SpecSpeed == InitSpeed /\ [][NextSpeed]_vars

----------------------------------------------------------------------------
(* The same preview and export over a video and one transition that has a   *)
(* rotation and a scale of its own (SpecTransition).                        *)

\* the properties panel: rotation in degrees, scale in tenths
OwnRotations == {0, 30}
OwnScales == {10, 15}

TransitionProjects ==
    {<<Clip(1, "VIDEO", "clip", 0, 5, 0, Plain),
       Clip(2, "IMAGE", "Spin", 5, 10, 1,
            [rotation |-> rotation, scale |-> scale])>> :
        rotation \in OwnRotations, scale \in OwnScales}

InitTransition ==
    /\ \E project \in TransitionProjects :
          /\ state = [initialState EXCEPT !.elements = project]
          /\ media = [id \in {project[i].id : i \in {i \in DOMAIN project : IsMedia(project[i])}} |->
                         MediaLayerEffect(FreshMedia(FindById(project, id)[1]),
                                          FindById(project, id)[1],
                                          [initialState EXCEPT !.elements = project])]
          /\ painted = PreviewPaint([initialState EXCEPT !.elements = project], NoJitter)
    /\ nextId = 3
    /\ dragState = NoDrag
    /\ selectionBox = NoBox
    /\ lastMove = NoMove
    /\ lastBox = NoBox
    /\ pointer = "idle"
    /\ exportRun = NoExport
    /\ audioSourceNodeCache = <<>>
    /\ fade = NoFade
    /\ browser = AllSupported
    /\ playback = NoPlayback

SpecTransition == InitTransition /\ [][NextRender]_vars

----------------------------------------------------------------------------
(* Copy and paste of a transition placed on the timeline (SpecPaste).       *)

PasteNames == TransitionNames \cup {"Fade White"}

\* a transition of the library dropped at the start of the timeline, with a
\* rotation and a scale of its own
PasteClips ==
    {Clip(1, "IMAGE", name, 0, 10, 0, [rotation |-> rotation, scale |-> scale]) :
        name \in PasteNames, rotation \in OwnRotations, scale \in OwnScales}

InitPaste ==
    /\ \E clip \in PasteClips :
          state = [initialState EXCEPT !.elements = <<clip>>]
    /\ nextId = 2
    /\ dragState = NoDrag
    /\ selectionBox = NoBox
    /\ lastMove = NoMove
    /\ lastBox = NoBox
    /\ pointer = "idle"
    /\ media = <<>>
    /\ painted = <<>>
    /\ exportRun = NoExport
    /\ audioSourceNodeCache = <<>>
    /\ fade = NoFade
    /\ browser = AllSupported
    /\ playback = NoPlayback

NextPaste ==
    \/ CanvasClick
    \/ MenuCopy
    \/ MenuPaste

SpecPaste == InitPaste /\ [][NextPaste]_vars

----------------------------------------------------------------------------
(* The fade of one element, evaluated at any clip time by the three copies  *)
(* of the computation: MediaLayer's effect, the export tick's media pass    *)
(* and its overlay pass (SpecFade).                                         *)

MaxFade == 3        \* longest fade-in and fade-out, in ticks

FadeDurations == {2, 3, 4, 6}
FadeTypes == {"VIDEO", "IMAGE"}

FadeElements ==
    {Clip(1, type, "clip", 0, duration, 0,
          [Plain EXCEPT !.fadeIn = fadeIn, !.fadeOut = fadeOut]) :
        type \in FadeTypes, duration \in FadeDurations,
        fadeIn \in 0 .. MaxFade, fadeOut \in 0 .. MaxFade}

FadeEvaluated(path, clipTime) ==
    /\ fade' = [fade EXCEPT !.evaluated = TRUE, !.path = path, !.clipTime = clipTime,
                            !.fadeMultiplier = FadeMultiplier(fade.el, clipTime)]
    /\ UNCHANGED <<state, nextId, dragState, selectionBox, lastMove, lastBox, pointer,
                   media, painted, exportRun, browser, playback, audioSourceNodeCache>>

\* MediaLayer's effect on a video or audio element within its bounds,
\* 0 <= timeOnTrack <= duration
MediaLayerFade ==
    /\ IsMedia(fade.el)
    /\ \E clipTime \in 0 .. fade.el.duration : FadeEvaluated("MediaLayer", clipTime)

\* the export tick on an active video or audio element
ExportMediaFade ==
    /\ IsMedia(fade.el)
    /\ \E clipTime \in 0 .. (fade.el.duration - 1) : FadeEvaluated("tick media", clipTime)

\* the export tick on an active image or text
ExportOverlayFade ==
    /\ ~IsMedia(fade.el)
    /\ \E clipTime \in 0 .. (fade.el.duration - 1) : FadeEvaluated("tick overlay", clipTime)

InitFade ==
    /\ \E el \in FadeElements :
          /\ state = [initialState EXCEPT !.elements = <<el>>]
          /\ fade = [NoFade EXCEPT !.el = el]
    /\ nextId = 2
    /\ dragState = NoDrag
    /\ selectionBox = NoBox
    /\ lastMove = NoMove
    /\ lastBox = NoBox
    /\ pointer = "idle"
    /\ media = <<>>
    /\ painted = <<>>
    /\ exportRun = NoExport
    /\ audioSourceNodeCache = <<>>
    /\ browser = AllSupported
    /\ playback = NoPlayback

NextFade ==
    \/ MediaLayerFade
    \/ ExportMediaFade
    \/ ExportOverlayFade

SpecFade == InitFade /\ [][NextFade]_vars

----------------------------------------------------------------------------
(* Properties of the pointer gestures (SpecTimeline) *)

\* the element of the current state with the given id
Now(id) == FindById(state.elements, id)[1]

MoveHandled == dragState.isDragging /\ dragState.type = "move" /\ lastMove.handled

\* C3: every element has startTime >= 0, duration > 0 and trackId >= 0
C3_ElementsWellFormed ==
    \A i \in DOMAIN state.elements :
        /\ state.elements[i].startTime >= 0
        /\ state.elements[i].duration > 0
        /\ state.elements[i].trackId >= 0

\* the snap points of the claim, in the order they are tried: start and end
\* of each element that is not dragged, the playhead, 0
C4_Others ==
    SelectSeq(state.elements,
              LAMBDA el : \A k \in DOMAIN dragState.initialElements :
                              dragState.initialElements[k].id # el.id)

C4_NumPoints == 2 * Len(C4_Others) + 2

C4_Point(i) ==
    IF i > 2 * Len(C4_Others)
    THEN (IF i = 2 * Len(C4_Others) + 1 THEN state.currentTime ELSE 0)
    ELSE IF i % 2 = 1 THEN C4_Others[(i + 1) \div 2].startTime
    ELSE endTime(C4_Others[i \div 2])

\* strictly within 15px / zoom
C4_Near(a, point) == Abs(a - point) * state.zoom < SNAP_THRESHOLD_PX

C4_Candidate(el) == Max(0, el.startTime + lastMove.deltaSeconds)

C4_Matching(el) ==
    {i \in 1 .. C4_NumPoints :
        \/ C4_Near(C4_Candidate(el), C4_Point(i))
        \/ C4_Near(C4_Candidate(el) + el.duration, C4_Point(i))}

C4_First(el) == CHOOSE i \in C4_Matching(el) : \A j \in C4_Matching(el) : i <= j

\* C4: after a move step every dragged element sits exactly on the first
\* snap point its candidate start or end is near (the start if the start is
\* near it, else the end), and at its candidate start if none is near; the
\* snap points are taken from the elements that are not dragged
C4_SnapsToFirstPoint ==
    MoveHandled =>
        \A k \in DOMAIN dragState.initialElements :
            LET el == dragState.initialElements[k]
            IN  IF C4_Matching(el) = {}
                THEN Now(el.id).startTime = C4_Candidate(el)
                ELSE IF C4_Near(C4_Candidate(el), C4_Point(C4_First(el)))
                THEN Now(el.id).startTime = C4_Point(C4_First(el))
                ELSE endTime(Now(el.id)) = C4_Point(C4_First(el))

\* a move step has snapped the end of a dragged element onto the start of an
\* element that is not dragged, away from its candidate position
C4_Witness ==
    /\ MoveHandled
    /\ \E k \in DOMAIN dragState.initialElements :
          LET el == dragState.initialElements[k]
          IN  /\ C4_Matching(el) # {}
              /\ C4_First(el) <= 2 * Len(C4_Others)
              /\ C4_First(el) % 2 = 1
              /\ ~C4_Near(C4_Candidate(el), C4_Point(C4_First(el)))
              /\ Now(el.id).startTime # C4_Candidate(el)
              /\ endTime(Now(el.id)) = C4_Point(C4_First(el))

\* C5: after a move step the pairwise differences of the dragged elements'
\* startTimes and trackIds are those of the drag's start
C5_UniformTranslation ==
    MoveHandled =>
        \A k, j \in DOMAIN dragState.initialElements :
            LET a == dragState.initialElements[k]
                b == dragState.initialElements[j]
            IN  /\ Now(a.id).startTime - Now(b.id).startTime = a.startTime - b.startTime
                /\ Now(a.id).trackId - Now(b.id).trackId = a.trackId - b.trackId

\* the element the drag was started on, as it was at the drag's start
Pressed == SelectSeq(dragState.initialElements, LAMBDA i : i.id = dragState.elementId)[1]

\* C6: after a resize-start step the pressed element's right edge is where
\* it was and its duration is at least 0.5 s; after a resize-end step its
\* startTime is what it was and its duration is at least 0.5 s
C6_ResizeKeepsOtherEdge ==
    (dragState.isDragging /\ lastMove.handled) =>
        /\ dragState.type = "resize-start" =>
              /\ endTime(Now(dragState.elementId)) = endTime(Pressed)
              /\ Now(dragState.elementId).duration >= MIN_DURATION
        /\ dragState.type = "resize-end" =>
              /\ Now(dragState.elementId).startTime = Pressed.startTime
              /\ Now(dragState.elementId).duration >= MIN_DURATION

\* the elements whose rectangle meets the rectangle spanned by the two
\* corners of the box
C7_Hits(s, box) ==
    {s.elements[i].id : i \in
        {i \in DOMAIN s.elements :
            LET el == s.elements[i]
                rx == el.startTime * s.zoom
                rw == el.duration * s.zoom
                ry == el.trackId * (TRACK_HEIGHT + TRACK_GAP) + TRACK_GAP
            IN  /\ Min(box.startX, box.currentX) < rx + rw
                /\ Max(box.startX, box.currentX) > rx
                /\ Min(box.startY, box.currentY) < ry + TRACK_HEIGHT
                /\ Max(box.startY, box.currentY) > ry}}

C7_MarqueeCloses == selectionBox.isSelecting /\ ~selectionBox'.isSelecting

\* C7: the mouse-up of a marquee makes the selection exactly the set of the
\* elements whose rectangle meets the drag rectangle
C7_SelectionIsHitSet ==
    [][C7_MarqueeCloses => Range(state'.selectedIds) = C7_Hits(state, selectionBox)]_vars

\* C7, as the code has it: the mouse-up of a marquee that meets some element makes the
\* selection exactly the set of the elements it meets, whichever corner the
\* drag started at; one that meets none empties the selection if it is
\* shorter than 5px on both axes and leaves the selection as it was otherwise
C7_SelectionAfterMarquee ==
    [][C7_MarqueeCloses =>
         IF C7_Hits(state, selectionBox) # {}
         THEN /\ Range(state'.selectedIds) = C7_Hits(state, selectionBox)
              /\ Len(state'.selectedIds) = Cardinality(C7_Hits(state, selectionBox))
         ELSE IF Abs(selectionBox.currentX - selectionBox.startX) < TINY_DRAG_PX
                 /\ Abs(selectionBox.currentY - selectionBox.startY) < TINY_DRAG_PX
         THEN state'.selectedIds = <<>>
         ELSE state'.selectedIds = state.selectedIds]_vars

\* a marquee dragged from its bottom right corner to its top left corner has
\* closed over all three elements, which are the selection
C7_Witness ==
    /\ pointer = "released"
    /\ lastBox.isSelecting
    /\ lastBox.currentX < lastBox.startX /\ lastBox.currentY < lastBox.startY
    /\ Cardinality(C7_Hits(state, lastBox)) = 3
    /\ Range(state.selectedIds) = C7_Hits(state, lastBox)

----------------------------------------------------------------------------
(* Properties of the editor actions (Spec) *)

\* what the claim says of SPLIT_CLIP dispatched on id in state s
C8_Post(s, id, post) ==
    LET e == FindById(s.elements, id)[1]
        t == s.currentTime
    IN  IF e.startTime < t /\ t < e.startTime + e.duration
        THEN /\ Len(post.elements) = Len(s.elements) + 1
             /\ \A i \in DOMAIN s.elements :
                   \E j \in DOMAIN post.elements :
                      post.elements[j] = IF s.elements[i].id = id
                                         THEN [e EXCEPT !.duration = t - e.startTime]
                                         ELSE s.elements[i]
             /\ LET second == CHOOSE el \in Range(post.elements) :
                                 el.id \notin ElementIds(s.elements)
                IN  /\ \E el \in Range(post.elements) : el.id \notin ElementIds(s.elements)
                    /\ second.startTime = t
                    /\ second.duration = e.startTime + e.duration - t
                    /\ second.trimStart * UnitRate =
                          e.trimStart * UnitRate + (t - e.startTime) * e.playbackRate
                    /\ [second EXCEPT !.id = e.id, !.startTime = e.startTime,
                                      !.duration = e.duration, !.trimStart = e.trimStart] = e
        ELSE post = s

\* C8: SPLIT_CLIP on e with the playhead t strictly inside e leaves the other
\* elements alone, shortens e to t - startTime and adds a copy of e with a new id,
\* startTime t, the rest of the duration and trimStart advanced by
\* (t - startTime) x playbackRate; with t not strictly inside e the state
\* is unchanged
C8_SplitClip ==
    [][\A id \in ElementIds(state.elements) :
          state' = Rendered(SPLIT_CLIP(ContextSelect(state, id), id, nextId))
             => C8_Post(ContextSelect(state, id), id, state')]_vars

\* a clip playing at double speed has been split: the second part starts
\* where the first ends, its trimStart twice the first part's duration
C8_Witness ==
    \E i, j \in DOMAIN state.elements :
        /\ i < j
        /\ state.elements[j].startTime = endTime(state.elements[i])
        /\ state.elements[i].trimStart = 0
        /\ state.elements[j].playbackRate = 2 * UnitRate
        /\ state.elements[j].trimStart = 2 * state.elements[i].duration
        /\ state.selectedIds = <<state.elements[j].id>>

----------------------------------------------------------------------------
(* Properties of the preview and of the export (SpecRender) *)

\* the export has drawn a frame at the instant the preview shows
C1_SameInstant == exportRun.phase = "recording" /\ exportRun.elapsed = state.currentTime

\* C1: for every painted element other than a Glitch, active at t, the
\* preview and the export paint at t with the same opacity, which is
\* opacity x fadeMultiplier x opacityMultiplier, and with the same position,
\* scale and rotation
C1_PreviewPaintsAsExport ==
    C1_SameInstant =>
        \A i \in DOMAIN state.elements :
            LET el == state.elements[i]
                t == state.currentTime
                mine == painted[el.id]
                theirs == exportRun.frame[el.id]
            IN  (el.name # "Glitch" /\ el.type # "AUDIO" /\ IsActiveAt(el, t)) =>
                    /\ mine.opacity = theirs.opacity
                    /\ theirs.opacity =
                          RMul(RMul(Rat(el.opacity, UnitTenths),
                                    FadeMultiplier(el, t - el.startTime)),
                               getProceduralTransform(el, t, state.canvasMode, TRUE,
                                                      NoJitter).opacityMultiplier)
                    /\ mine.x = theirs.x /\ mine.y = theirs.y
                    /\ mine.scale = theirs.scale /\ mine.rotation = theirs.rotation

\* C2: the preview (the MediaLayer of a video included) and the export show
\* an element at t iff startTime <= t < startTime + duration, so of two
\* clips that meet at t at most one is shown
C2_HalfOpenActivity ==
    /\ \A i \in DOMAIN state.elements :
          LET el == state.elements[i]
          IN  /\ el.type # "AUDIO" =>
                    (painted[el.id].shown <=> IsActiveAt(el, state.currentTime))
              /\ (exportRun.phase = "recording" /\ el.type # "AUDIO") =>
                    (exportRun.frame[el.id].shown <=> IsActiveAt(el, exportRun.elapsed))
    /\ \A i, j \in DOMAIN state.elements :
          (endTime(state.elements[i]) = state.elements[j].startTime
              /\ state.currentTime = state.elements[j].startTime)
            => ~(painted[state.elements[i].id].shown /\ painted[state.elements[j].id].shown)

\* trimStart + (t - startTime) x playbackRate, in quarters of a tick
C9_Target(el, t) == el.trimStart * UnitRate + (t - el.startTime) * el.playbackRate

\* after a step that synchronises, a media element is where it was and
\* within the tolerance of the target, or exactly on the target
C9_Driven(id, target, tolerance) ==
    /\ media'[id].currentTime = media[id].currentTime \/ media'[id].currentTime = target
    /\ Abs(media'[id].currentTime - target) <= tolerance * UnitRate

\* C9: every render of the preview at a new time or play state, and every
\* tick of the export (the first, or one at a later elapsed), leaves each active video and audio element within
\* the path's tolerance of trimStart + (t - startTime) x playbackRate, and
\* whenever it moves the position it moves it exactly there
C9_DrivesToTarget ==
    [][/\ (state'.currentTime # state.currentTime \/ state'.isPlaying # state.isPlaying) =>
            \A i \in DOMAIN state'.elements :
                LET el == state'.elements[i]
                IN  (IsMedia(el) /\ IsActiveAt(el, state'.currentTime)) =>
                        C9_Driven(el.id, C9_Target(el, state'.currentTime),
                                  IF state'.isPlaying THEN SYNC_TOLERANCE_PLAYING
                                  ELSE SYNC_TOLERANCE_PAUSED)
       /\ (/\ exportRun'.phase = "recording"
           /\ exportRun.phase # "recording" \/ exportRun'.elapsed # exportRun.elapsed) =>
            \A i \in DOMAIN exportRun'.snapshot.elements :
                LET el == exportRun'.snapshot.elements[i]
                IN  (IsMedia(el) /\ IsActiveAt(el, exportRun'.elapsed)) =>
                        C9_Driven(el.id, C9_Target(el, exportRun'.elapsed),
                                  SYNC_TOLERANCE_EXPORT)]_vars

\* the preview has just put a clip that plays at double speed from a
\* trimmed start on its target, inside the clip
C9_Witness ==
    \E i \in DOMAIN state.elements :
        LET el == state.elements[i]
        IN  /\ IsMedia(el)
            /\ el.playbackRate = 2 * UnitRate /\ el.trimStart > 0
            /\ state.currentTime > el.startTime /\ IsActiveAt(el, state.currentTime)
            /\ exportRun.phase = "idle"
            /\ media[el.id].lastSyncTime = state.currentTime
            /\ media[el.id].currentTime = C9_Target(el, state.currentTime)

\* the content's extent: the largest startTime + duration
C10_Extent ==
    CHOOSE m \in {endTime(state.elements[i]) : i \in DOMAIN state.elements} :
        \A i \in DOMAIN state.elements : endTime(state.elements[i]) <= m

\* C10: the duration of an export run is the content's extent
C10_DurationIsExtent ==
    exportRun.phase = "recording" => exportRun.exportDuration = C10_Extent

\* C10, as the code has it: the duration of an export run is the content's extent,
\* or one second if the content ends before one second, whatever the
\* project's duration
C10_DurationIsExtentOrFloor ==
    exportRun.phase = "recording" =>
        exportRun.exportDuration = IF C10_Extent < EXPORT_FLOOR THEN EXPORT_FLOOR
                                   ELSE C10_Extent

\* an export runs over content that ends after the project's duration
C10_Witness ==
    /\ exportRun.phase = "recording"
    /\ state.duration < C10_Extent
    /\ exportRun.exportDuration = C10_Extent

----------------------------------------------------------------------------
(* Properties of the fade (SpecFade) *)

\* C11: with fadeIn + fadeOut <= duration the fade multiplier at clip time c
\* is c / fadeIn before fadeIn, 1 from fadeIn to duration - fadeOut and
\* (duration - c) / fadeOut after it; it is 0 at c = 0 under a fade-in, 0 at
\* c = duration under a fade-out, and always within [0, 1]
C11_FadeLaw ==
    (fade.evaluated /\ fade.el.fadeIn + fade.el.fadeOut <= fade.el.duration) =>
        LET el == fade.el
            c == fade.clipTime
            m == fade.fadeMultiplier
        IN  /\ c < el.fadeIn => m = Rat(c, el.fadeIn)
            /\ (c >= el.fadeIn /\ c <= el.duration - el.fadeOut) => m = RInt(1)
            /\ c > el.duration - el.fadeOut => m = Rat(el.duration - c, el.fadeOut)
            /\ (c = 0 /\ el.fadeIn > 0) => m = RInt(0)
            /\ (c = el.duration /\ el.fadeOut > 0) => m = RInt(0)
            /\ ~RLess(m, RInt(0)) /\ ~RLess(RInt(1), m)

\* the fade-out of an element with both fades has been evaluated halfway
\* down its ramp
C11_Witness ==
    /\ fade.evaluated
    /\ fade.el.fadeIn > 0 /\ fade.el.fadeOut > 0
    /\ fade.el.fadeIn + fade.el.fadeOut <= fade.el.duration
    /\ fade.clipTime > fade.el.duration - fade.el.fadeOut
    /\ fade.fadeMultiplier = Rat(1, 2)

\* C12: when the fade windows overlap, the multiplier at every clip time
\* past duration - fadeOut is the fade-out's (duration - c) / fadeOut
C12_FadeOutWinsInOverlap ==
    (/\ fade.evaluated
     /\ fade.el.fadeIn > fade.el.duration - fade.el.fadeOut
     /\ fade.clipTime > fade.el.duration - fade.el.fadeOut) =>
        fade.fadeMultiplier = Rat(fade.el.duration - fade.clipTime, fade.el.fadeOut)

----------------------------------------------------------------------------
(* Properties of the export run and of playback (SpecRender) *)

\* the run has been cancelled and its recorder still records
Cancelled == exportRun.phase = "recording" /\ ~exportRun.isExporting

\* C13: the first tick after a cancel ends the run: no frame is drawn, no
\* further tick is scheduled and the recorder is stopped
C13_CancelEndsRun ==
    [][(Cancelled /\ exportRun' # exportRun) => exportRun'.phase = "idle"]_vars

\* C14: the playback loop and an export loop are never both active: while
\* the recorder of an export run records, isPlaying is false
C14_OneLoopAtATime == ~(state.isPlaying /\ exportRun.phase = "recording")

\* the media elements of the video and audio elements that are not active
\* at t are paused after the step
InactivePaused(elements, t) ==
    \A i \in DOMAIN elements :
        (IsMedia(elements[i]) /\ ~IsActiveAt(elements[i], t)) =>
            media'[elements[i].id].paused

\* a render of the preview at a new time or play state
PreviewTicked == state'.currentTime # state.currentTime \/ state'.isPlaying # state.isPlaying

\* a tick of the export that has drawn a frame: the first, or one at a
\* later elapsed
ExportTicked ==
    /\ exportRun'.phase = "recording"
    /\ exportRun.phase # "recording" \/ exportRun'.elapsed # exportRun.elapsed

\* the tick of the export that has stopped the recorder, at an elapsed past
\* every element
ExportStopped == exportRun.phase = "recording" /\ exportRun'.phase = "idle"

C15_AfterPreview == PreviewTicked => InactivePaused(state'.elements, state'.currentTime)
C15_AfterTick == ExportTicked => InactivePaused(exportRun'.snapshot.elements, exportRun'.elapsed)
C15_AfterLastTick ==
    ExportStopped => InactivePaused(exportRun.snapshot.elements, exportRun.exportDuration + 1)

\* C15: after every tick at t, of the preview and of the export, the media
\* element of every video and audio element that is not active at t is paused
C15_InactiveIsPaused ==
    [][C15_AfterPreview /\ C15_AfterTick /\ C15_AfterLastTick]_vars

\* the track of the element with the given id
TrackOf(elements, id) == FindById(elements, id)[1].trackId

Ascending(order, elements) ==
    \A i, j \in DOMAIN order :
        i < j => TrackOf(elements, order[i]) <= TrackOf(elements, order[j])

\* C16: every frame of the preview and every frame of the export paints the
\* active elements in ascending trackId order
C16_PaintedInTrackOrder ==
    /\ Ascending(PreviewPaintOrder(state), state.elements)
    /\ exportRun.phase = "recording" =>
          Ascending(exportRun.drawn, exportRun.snapshot.elements)

\* C17: handleExport records in the first type of the list video/mp4,
\* video/webm;codecs=vp9, video/webm;codecs=vp8, video/webm that the browser
\* supports; when the browser supports none of them the attempt ends where it
\* began: isExporting stays false, the play state and the playhead are as
\* they were, no media element is touched and no recorder exists.
HandleExportRan == exportRun.phase = "idle" /\ exportRun' # exportRun

FirstSupported(i) ==
    /\ mimeTypes[i] \in browser
    /\ \A j \in 1 .. (i - 1) : mimeTypes[j] \notin browser

C17_FirstSupportedType ==
    [][HandleExportRan =>
         /\ \A i \in DOMAIN mimeTypes :
               FirstSupported(i) => /\ exportRun'.mimeType = mimeTypes[i]
                                    /\ exportRun'.isExporting
         /\ (\A i \in DOMAIN mimeTypes : mimeTypes[i] \notin browser) =>
               /\ ~exportRun'.isExporting
               /\ exportRun'.phase = "idle"
               /\ exportRun'.originalMediaStates = <<>>
               /\ exportRun'.gain = <<>>
               /\ state' = state
               /\ media' = media]_vars

\* a run records in VP8 WebM, the third type asked about, in a browser that
\* supports neither MP4 nor VP9
C17_Witness ==
    /\ exportRun.phase = "recording"
    /\ exportRun.mimeType = "video/webm;codecs=vp8"
    /\ "video/mp4" \notin browser
    /\ "video/webm;codecs=vp9" \notin browser
    /\ "video/webm" \in browser

\* C18: when an export run ends, by the recorder's stop or by a failure
\* after the setup, every media element the run has touched has the muted
\* flag and the volume it had before the run, none of them is left playing
\* by the ticks of the run (the preview being paused), and isExporting is
\* false.
RunEnded ==
    /\ exportRun.phase \in {"preparing", "recording"}
    /\ exportRun'.phase \in {"idle", "failed"}

OriginalMediaStates ==
    IF exportRun.phase = "recording" THEN exportRun.originalMediaStates
    ELSE exportRun'.originalMediaStates

C18_RunEndRestores ==
    [][RunEnded =>
         /\ ~exportRun'.isExporting
         /\ \A id \in DOMAIN OriginalMediaStates :
               /\ media'[id].muted = OriginalMediaStates[id].muted
               /\ media'[id].volume = OriginalMediaStates[id].volume
               /\ exportRun.phase = "recording" =>
                     (state.isPlaying \/ media'[id].paused)]_vars

\* C19: while the playback loop runs, the playhead is the loop's start
\* offset plus the time elapsed since the loop began and it never decreases
\* between two frames of one loop; a playhead that a frame has advanced is
\* below the project's duration, and the step that ends the playing leaves
\* the playhead where it was, as does every step taken while paused other
\* than a seek.
PlayheadOnClock ==
    state.isPlaying =>
        /\ playback.running
        /\ state.currentTime = playback.startOffset + playback.elapsed
        /\ playback.elapsed > 0 => state.currentTime < state.duration

SameLoop == state.isPlaying /\ state'.isPlaying /\ state'.seekVersion = state.seekVersion

C19_PlayheadFollowsClock ==
    [][/\ PlayheadOnClock'
       /\ SameLoop => state'.currentTime >= state.currentTime
       /\ (~state'.isPlaying /\ state'.seekVersion = state.seekVersion) =>
              state'.currentTime = state.currentTime]_vars

\* a loop started at 0.8 s has played for 1.3 s: the playhead is at 2.1 s
C19_Witness ==
    /\ state.isPlaying
    /\ playback.startOffset = 8
    /\ playback.elapsed = 13
    /\ state.currentTime = 21

\* C20: in every state of the editor the project's duration is at least the
\* end time startTime + duration of every element.
C20_DurationCoversContent ==
    \A i \in DOMAIN state.elements : state.duration >= endTime(state.elements[i])

----------------------------------------------------------------------------
(* Properties of the transitions (SpecTransition) *)

\* the progress of el at t, clamped to [0, 1], as a fraction of el.duration
C21_Elapsed(el, t) == Max(0, Min(el.duration, t - el.startTime))

\* rotation + progress * 720 and scale * (1 - |progress - 1/2| / 2)
C21_Spun(el, t, layer) ==
    /\ layer.rotation = Rat(el.rotation * el.duration + 720 * C21_Elapsed(el, t), el.duration)
    /\ layer.scale = Rat(el.scale * (4 * el.duration - Abs(2 * C21_Elapsed(el, t) - el.duration)),
                         4 * el.duration * UnitTenths)

\* the scale painted for el at the midpoint of el is factor times el's own
C21_AtMidpoint(el, t, layer, factor) ==
    2 * (t - el.startTime) = el.duration =>
        layer.scale = RMul(Rat(el.scale, UnitTenths), factor)

\* the scale painted for el at progress 0 and at progress 1, up to its
\* start and from its end on, is factor times el's own
C21_AtEnds(el, t, layer, factor) ==
    (t <= el.startTime \/ t >= el.startTime + el.duration) =>
        layer.scale = RMul(Rat(el.scale, UnitTenths), factor)

\* every Spin painted by the preview, and by the export while it records,
\* satisfies Law(el, t, layer)
C21_EverySpin(Law(_, _, _)) ==
    /\ \A i \in DOMAIN state.elements :
          state.elements[i].name = "Spin" =>
             Law(state.elements[i], state.currentTime, painted[state.elements[i].id])
    /\ exportRun.phase = "recording" =>
          \A i \in DOMAIN exportRun.snapshot.elements :
             exportRun.snapshot.elements[i].name = "Spin" =>
                Law(exportRun.snapshot.elements[i], exportRun.elapsed,
                    exportRun.frame[exportRun.snapshot.elements[i].id])

\* C21: for an element named Spin the preview and the export paint it with
\* its rotation plus progress * 720 degrees and its scale times
\* 1 - |progress - 0.5| * 0.5, and the scale is 75% of the element's own at
\* the midpoint, progress 0.5
C21_SpinDipsAtMidpoint ==
    C21_EverySpin(LAMBDA el, t, layer :
        C21_Spun(el, t, layer) /\ C21_AtMidpoint(el, t, layer, Rat(3, 4)))

\* C21, as the code has it: rotation plus progress * 720 degrees and scale
\* times 1 - |progress - 0.5| * 0.5, which is the element's own scale at
\* the midpoint and 75% of it at progress 0 and at progress 1
C21_SpinLaw ==
    C21_EverySpin(LAMBDA el, t, layer :
        /\ C21_Spun(el, t, layer)
        /\ C21_AtMidpoint(el, t, layer, RInt(1))
        /\ C21_AtEnds(el, t, layer, Rat(3, 4)))

\* a Spin of scale 1.5 turned by 30 degrees, painted at its midpoint: one
\* turn further, at its own scale
C21_Witness ==
    \E i \in DOMAIN state.elements :
        /\ state.elements[i].name = "Spin"
        /\ state.elements[i].scale = 15 /\ state.elements[i].rotation = 30
        /\ 2 * (state.currentTime - state.elements[i].startTime) = state.elements[i].duration
        /\ painted[state.elements[i].id].scale = Rat(3, 2)
        /\ painted[state.elements[i].id].rotation = RInt(390)

----------------------------------------------------------------------------
(* Further properties of the pointer gestures (SpecTimeline) *)

\* the timeline times of the layouts and of the drags
C22_Times == 0 .. 40

\* the pressed element as it was when the drag began: the drag's snapshot
\* holds its startTime and duration
C22_Before ==
    [Now(dragState.elementId) EXCEPT !.startTime = Pressed.startTime,
                                     !.duration = Pressed.duration]

\* C22: a resize-start step on a video or audio clip trims it: at every
\* timeline time inside the clip before and after the step, the media time
\* played is the same before and after.  Stated for the drags whose
\* snapshot begins with the pressed element.
C22_StartDragTrims ==
    (/\ dragState.isDragging /\ lastMove.handled
     /\ dragState.type = "resize-start"
     /\ dragState.initialElements[1].id = dragState.elementId
     /\ IsMedia(Now(dragState.elementId))) =>
        \A t \in C22_Times :
            (IsActiveAt(C22_Before, t) /\ IsActiveAt(Now(dragState.elementId), t)) =>
                TargetMediaTime(Now(dragState.elementId),
                                t - Now(dragState.elementId).startTime)
                    = TargetMediaTime(C22_Before, t - C22_Before.startTime)

\* C23: a resize step changes only the element whose handle was pressed:
\* every other element of the drag's snapshot, the elements selected when
\* the handle was pressed, has the startTime, the duration and the track it
\* had then
C23_ResizesPressedOnly ==
    (/\ dragState.isDragging /\ lastMove.handled
     /\ dragState.type \in {"resize-start", "resize-end"}) =>
        \A k \in DOMAIN dragState.initialElements :
            LET before == dragState.initialElements[k]
            IN  before.id # dragState.elementId =>
                  /\ Now(before.id).startTime = before.startTime
                  /\ Now(before.id).duration = before.duration
                  /\ Now(before.id).trackId = before.trackId

----------------------------------------------------------------------------
(* Properties of the export loop under fair scheduling (SpecExportLive) *)

\* C24: every export run whose recorder has started recording leads to the
\* recorder stopped and onstop run, whatever number of ticks raise an
\* exception while drawing
C24_RecorderStops ==
    (RecorderState(exportRun) = "recording") ~> (exportRun.phase = "idle")

----------------------------------------------------------------------------
(* The speed slider (SpecSpeed) *)

\* a step of the slider: the selection stays and some element changes
C25_SliderStep ==
    state'.selectedIds = state.selectedIds /\ state'.elements # state.elements

\* what a change to newRate makes of one element
C25_Retimed(el, newRate) ==
    [el EXCEPT !.playbackRate = newRate,
               !.duration = (el.duration * RateOrOne(el)) \div newRate]

\* the clip of SpeedProject an element began as
C25_Original(el) == FindById(SpeedProject, el.id)[1]

\* the rate is back at the original one and the duration with it
C25_RoundTrip ==
    \A i \in DOMAIN state.elements :
        LET el == state.elements[i]
        IN  RateOrOne(el) = RateOrOne(C25_Original(el)) =>
               el.duration = C25_Original(el).duration

\* C25: a change of the playback rate from r to r' sets the duration of each
\* selected element to duration * r / r', which keeps duration * playbackRate,
\* leaves startTime, trimStart and every element outside the selection as
\* they were, and a change back to r restores the original duration.
C25_SpeedKeepsContent ==
    /\ []C25_RoundTrip
    /\ [][C25_SliderStep =>
            \E newRate \in SliderRates :
               \A i \in DOMAIN state.elements :
                  LET el == state.elements[i]
                      after == FindById(state'.elements, el.id)
                  IN  /\ after # <<>>
                      /\ IF Includes(state.selectedIds, el.id)
                         THEN /\ after[1] = C25_Retimed(el, newRate)
                              /\ after[1].duration * newRate =
                                    el.duration * RateOrOne(el)
                              /\ after[1].startTime = el.startTime
                              /\ after[1].trimStart = el.trimStart
                         ELSE after[1] = el]_vars

\* the three clips selected together and slowed to 0.5x: 0.8 s at 1x, 1.6 s
\* at 1x and 2.4 s at 2x have become 1.6 s, 3.2 s and 9.6 s
C25_Witness ==
    /\ state.selectedIds = <<1, 2, 3>>
    /\ \A i \in DOMAIN state.elements :
          state.elements[i].playbackRate = UnitRate \div 2
    /\ FindById(state.elements, 1)[1].duration = 16
    /\ FindById(state.elements, 2)[1].duration = 32
    /\ FindById(state.elements, 3)[1].duration = 96

----------------------------------------------------------------------------
(* The audio graph of the export over successive runs (SpecExportLive) *)

\* the video and audio elements of the run's snapshot that have a media element
C26_Mixed ==
    {id \in ElementIds(exportRun.snapshot.elements) :
        /\ FindById(exportRun.snapshot.elements, id)[1].type \in {"VIDEO", "AUDIO"}
        /\ id \in DOMAIN media}

\* C26: over any number of export runs at most one audio source node is made
\* for each media element, later runs take the node from the cache, and a run
\* whose audio graph is set up has one gain node for each video or audio
\* element that has a media element, fed by that element's source node.
C26_SourceMadeOnce ==
    /\ \A id \in DOMAIN audioSourceNodeCache : audioSourceNodeCache[id] = 1
    /\ exportRun.phase \in {"recording", "failed"} =>
          /\ DOMAIN exportRun.gain = C26_Mixed
          /\ DOMAIN exportRun.source = C26_Mixed
          /\ C26_Mixed \subseteq DOMAIN audioSourceNodeCache
          /\ \A id \in C26_Mixed :
                exportRun.source[id] = "created" \/ exportRun.source[id] = "cached"

\* a later run records with the source node an earlier run made
C26_Witness ==
    /\ exportRun.phase = "recording"
    /\ C26_Mixed # {}
    /\ \A id \in C26_Mixed :
          exportRun.source[id] = "cached" /\ audioSourceNodeCache[id] = 1

----------------------------------------------------------------------------
(* One export at a time (SpecExportAgain) *)

\* C27: at most one export run exists at any time: no run has been started
\* while the recorder of an earlier run, cancelled or not, is still recording
\* with its tick loop.
C27_OneExportRun ==
    ~(/\ exportRun.phase # "idle"
      /\ exportRun.earlier # <<>>
      /\ exportRun.earlier.phase = "recording")

----------------------------------------------------------------------------
(* The selection of the editor (SpecSelect) *)

\* C28: in every state of the editor every id in selectedIds is the id of an
\* element of elements, whatever elements were added, pasted, split,
\* deleted, clicked, marquee-selected or deselected before.
C28_SelectionWithinElements ==
    \A k \in DOMAIN state.selectedIds :
        state.selectedIds[k] \in ElementIds(state.elements)

\* two elements were made, one of them was removed and the other is selected
C28_Witness ==
    /\ nextId = MaxId + 1
    /\ Len(state.elements) = 1
    /\ state.selectedIds = <<state.elements[1].id>>

----------------------------------------------------------------------------
(* The pasted copy of a transition (SpecPaste) *)

\* element copy is what PASTE_ELEMENT made of the transition element original
C29_CopyOf(copy, original) ==
    /\ original.name \in PasteNames
    /\ copy.id # original.id
    /\ [copy EXCEPT !.id = original.id, !.startTime = original.startTime,
                    !.name = original.name] = original

\* C29: the pasted copy of a transition element behaves as the same
\* transition: at equal progress the resolver returns the same position,
\* rotation, scale and opacity multiplier for the copy as for the original.
C29_CopyIsSameTransition ==
    \A i, j \in DOMAIN state.elements :
        C29_CopyOf(state.elements[j], state.elements[i]) =>
           \A k \in 0 .. state.elements[i].duration, isPlaying \in BOOLEAN :
              \A jitter \in JitterChoices(<<state.elements[i]>>, isPlaying) :
                 getProceduralTransform(state.elements[j],
                                        state.elements[j].startTime + k,
                                        state.canvasMode, isPlaying, jitter)
                 = getProceduralTransform(state.elements[i],
                                          state.elements[i].startTime + k,
                                          state.canvasMode, isPlaying, jitter)

----------------------------------------------------------------------------
(* The playhead moved while playing (SpecPlayhead) *)

\* C30: a change of the playhead asked for while playing, by a click on the
\* timeline or by the rewind button, takes effect: a frame of the playback
\* loop moves the playhead on from where it is by no more than the time that
\* has passed since the loop's frame before, so it never puts the playhead
\* back on the timeline of the position it was moved away from.
C30_PlayheadChangeTakesEffect ==
    [][(/\ SameLoop
        /\ playback.running /\ playback'.running
        /\ playback'.startOffset = playback.startOffset) =>
           state'.currentTime <=
              state.currentTime + (playback'.elapsed - playback.elapsed)]_vars

====
